---- MODULE Spec2Model ----
(***************************************************************************)
(* A model of the Reddit marketing bot: RedditBot (src/models/reddit_bot.py)*)
(* with its drivers, the threads of src/main.py and the handlers of        *)
(* src/routes/api.py.                                                      *)
(*                                                                         *)
(* Text is a sequence of one-character strings.  Time is time.time() in    *)
(* whole seconds.  A dict is the sequence of its entries in insertion      *)
(* order, the order in which Python iterates it.                           *)
(***************************************************************************)
EXTENDS Integers, Sequences, FiniteSets, TLC

VARIABLES
    bot,        \* module name -> the RedditBot held by that module's global `bot`
    pc,         \* thread -> its position in the code
    loc,        \* thread -> the locals of its monitor_subreddits frame
    now,        \* the wall clock, seconds
    boot,       \* the wall clock at process start
    sched,      \* the scheduler thread: the reset job's next_run and its position
    db_config,  \* the stored "bot_config" row of the config table
    db_products, \* the rows of the products table, in the order of their insertion
    hist,       \* history: what has been observed of the run so far
    arg,        \* the arguments of a single call of one method
    ret         \* what that call returned: None before the call, Some(value) after

vars == <<bot, pc, loc, now, boot, sched, db_config, db_products, hist, arg, ret>>

(***************************************************************************)
(* Python values                                                           *)
(***************************************************************************)

\* Optional[...]: None, or the value.
None == <<>>

Some(v) == <<v>>

\* str.lower() on the alphabet of the model.
LowerChar(c) ==
    CASE c = "A" -> "a"
      [] c = "B" -> "b"
      [] c = "C" -> "c"
      [] c = "T" -> "t"
      [] OTHER -> c

lower(s) == IF s = <<>> THEN <<>> ELSE [i \in 1..Len(s) |-> LowerChar(s[i])]

\* `needle in hay` on str: needle occurs as a contiguous substring.
StrIn(needle, hay) ==
    \E i \in 0..(Len(hay) - Len(needle)) :
        SubSeq(hay, i + 1, i + Len(needle)) = needle

\* A content that leaves out the body of the post.
post_content_TitleOnly(post) == lower(post.title)

\* f"{post.title} {post.selftext}".lower()
post_content(post) == lower(post.title \o <<" ">> \o post.selftext)

\* dict.get(key, default)
Get(d, key, default) == IF key \in DOMAIN d THEN d[key] ELSE default

SecondsPerHour == 3600

SecondsPerDay == 86400

\* datetime.datetime.now().hour
HourOf(t) == (t \div SecondsPerHour) % 24

(***************************************************************************)
(* RedditBot._filter_post                                                  *)
(***************************************************************************)

Verdict(passed, reason, keyword) ==
    [passed |-> passed, reason |-> reason, keyword |-> keyword]

\* The loop `for keyword in self.forbidden_keywords`: the index of the first
\* keyword that occurs in the content, 0 when the loop ends without a return.
RECURSIVE FirstForbidden(_, _, _)
FirstForbidden(keywords, content, i) ==
    IF i > Len(keywords) THEN 0
    ELSE IF StrIn(lower(keywords[i]), content) THEN i
    ELSE FirstForbidden(keywords, content, i + 1)

filter_post_LeScore(self, post, time) ==
    IF post.score <= self.min_post_score
    THEN Verdict(FALSE, "Score trop bas", None)
    ELSE IF (time - post.created_utc) > self.max_post_age_hours * SecondsPerHour
    THEN Verdict(FALSE, "Publication trop ancienne", None)
    ELSE LET k == FirstForbidden(self.forbidden_keywords, post_content(post), 1)
         IN  IF k # 0
             THEN Verdict(FALSE, "Contient un mot-cle interdit",
                          Some(self.forbidden_keywords[k]))
             ELSE IF post.over_18
             THEN Verdict(FALSE, "Publication marquee NSFW", None)
             ELSE Verdict(TRUE, "None", None)

_filter_post(self, post, time) ==
    IF post.score < self.min_post_score
    THEN Verdict(FALSE, "Score trop bas", None)
    ELSE IF (time - post.created_utc) > self.max_post_age_hours * SecondsPerHour
    THEN Verdict(FALSE, "Publication trop ancienne", None)
    ELSE LET k == FirstForbidden(self.forbidden_keywords, post_content(post), 1)
         IN  IF k # 0
             THEN Verdict(FALSE, "Contient un mot-cle interdit",
                          Some(self.forbidden_keywords[k]))
             ELSE IF post.over_18
             THEN Verdict(FALSE, "Publication marquee NSFW", None)
             ELSE Verdict(TRUE, "None", None)

(***************************************************************************)
(* RedditBot._select_product_for_post                                      *)
(***************************************************************************)

\* The loop `for keyword in keywords`: score += 1 for each keyword found.
RECURSIVE KeywordScore(_, _, _)
KeywordScore(keywords, content, i) ==
    IF i > Len(keywords) THEN 0
    ELSE (IF StrIn(lower(keywords[i]), content) THEN 1 ELSE 0)
         + KeywordScore(keywords, content, i + 1)

\* The loop `for product_id, product in self.products.items()`: the dict
\* product_scores, as the sequence of its entries; an entry is inserted only
\* `if score > 0`.
RECURSIVE ProductScores(_, _, _)
ProductScores(products, content, i) ==
    IF i > Len(products) THEN <<>>
    ELSE LET score == KeywordScore(Get(products[i], "keywords", <<>>), content, 1)
         IN  (IF score > 0 THEN <<[index |-> i, score |-> score]>> ELSE <<>>)
             \o ProductScores(products, content, i + 1)

\* max(product_scores, key=product_scores.get): the first entry whose score no
\* other entry exceeds; `best` is the entry kept so far.
RECURSIVE MaxEntry(_, _, _)
MaxEntry(scores, best, i) ==
    IF i > Len(scores) THEN best
    ELSE MaxEntry(scores,
                  IF scores[i].score > scores[best].score THEN i ELSE best,
                  i + 1)

\* A variant of max that keeps the last of the entries with the top score.
RECURSIVE MaxEntryLast(_, _, _)
MaxEntryLast(scores, best, i) ==
    IF i > Len(scores) THEN best
    ELSE MaxEntryLast(scores,
                  IF scores[i].score >= scores[best].score THEN i ELSE best,
                  i + 1)

Selected(products, entry) ==
    [id |-> products[entry.index].id, score |-> entry.score,
     product |-> products[entry.index]]

select_product_LastMax(self, post) ==
    IF self.products = <<>> THEN None
    ELSE LET product_scores == ProductScores(self.products, post_content(post), 1)
         IN  IF product_scores # <<>>
             THEN Some(Selected(self.products,
                                product_scores[MaxEntryLast(product_scores, 1, 2)]))
             ELSE None

_select_product_for_post(self, post) ==
    IF self.products = <<>> THEN None
    ELSE LET product_scores == ProductScores(self.products, post_content(post), 1)
         IN  IF product_scores # <<>>
             THEN Some(Selected(self.products,
                                product_scores[MaxEntry(product_scores, 1, 2)]))
             ELSE None

(***************************************************************************)
(* RedditBot._generate_comment                                             *)
(***************************************************************************)

\* The replacement fields that occur in the templates of the repository.
Fields ==
    {"{product_name}", "{product_url}",
     "{alternative_product_name}", "{alternative_product_url}"}

\* The outcome of a call: a returned value, or a raised exception.
Return(v) == [raised |-> FALSE, value |-> v, exc |-> "None"]

Raise(exc) == [raised |-> TRUE, value |-> <<>>, exc |-> exc]

\* str.format(**kwargs): a template is the sequence of its literal pieces and
\* replacement fields; a field that kwargs does not name raises KeyError.
Format(template, kwargs) ==
    IF \E i \in 1..Len(template) :
           template[i] \in Fields /\ template[i] \notin DOMAIN kwargs
    THEN Raise("KeyError")
    ELSE Return([i \in 1..Len(template) |->
                    IF template[i] \in Fields THEN kwargs[template[i]]
                    ELSE template[i]])

\* The template branch, the same statements at lines 730-738 and 793-800:
\* random.choice(list(self.comment_templates.keys())) is `choice`, an index
\* into the dict; on an empty list random.choice raises IndexError.
TemplateFill(self, product, choice) ==
    IF self.comment_templates = <<>> THEN Raise("IndexError")
    ELSE IF ~({"name", "url"} \subseteq DOMAIN product) THEN Raise("KeyError")
    ELSE Format(self.comment_templates[choice].content,
                [f \in {"{product_name}", "{product_url}"} |->
                    IF f = "{product_name}" THEN product.name ELSE product.url])

\* The choices random.choice can make (0 stands for the call that raises).
Choices(self) ==
    IF self.comment_templates = <<>> THEN {0}
    ELSE 1..Len(self.comment_templates)

\* What openai_client.chat.completions.create(...) can do: answer with a text,
\* answer with blank text, or raise.
GenOutcomes == {"text", "blank", "raise"}

GeneratedText == <<"generated comment">>

\* _generate_comment: `gen` is what the generative call does if it is made,
\* choice1 the random choice of the try block, choice2 that of the handler.
_generate_comment(self, product, gen, choice1, choice2) ==
    LET try ==
            IF ~({"name"} \subseteq DOMAIN product) THEN Raise("KeyError")
            ELSE IF ~self.openai THEN TemplateFill(self, product, choice1)
            ELSE IF ~({"name", "description", "url"} \subseteq DOMAIN product)
            THEN Raise("KeyError")
            ELSE IF gen = "raise" THEN Raise("APIError")
            ELSE IF gen = "blank" THEN Return(<<>>)
            ELSE Return(GeneratedText)
    IN  IF try.raised THEN TemplateFill(self, product, choice2) ELSE try

(***************************************************************************)
(* RedditBot._post_comment                                                 *)
(***************************************************************************)

\* What post.reply(comment) can do when it is called.
ReplyOutcomes == {"ok", "raise"}

\* _post_comment with a dry run that submits all the same.
post_comment_DryReply(self, reply) ==
    IF self.dry_run THEN [ok |-> TRUE, called |-> TRUE]
    ELSE IF ~self.reddit THEN [ok |-> FALSE, called |-> FALSE]
    ELSE [ok |-> reply = "ok", called |-> TRUE]

\* _post_comment with a dry run that reports a failure.
post_comment_DryFalse(self, reply) ==
    IF self.dry_run THEN [ok |-> FALSE, called |-> FALSE]
    ELSE IF ~self.reddit THEN [ok |-> FALSE, called |-> FALSE]
    ELSE [ok |-> reply = "ok", called |-> TRUE]

\* _post_comment: `reply` is what post.reply does if it is called.  `called`
\* tells whether the submission capability was invoked.
_post_comment(self, reply) ==
    IF self.dry_run THEN [ok |-> TRUE, called |-> FALSE]
    ELSE IF ~self.reddit THEN [ok |-> FALSE, called |-> FALSE]
    ELSE [ok |-> reply = "ok", called |-> TRUE]

(***************************************************************************)
(* RedditBot.__init__ and the configuration                                *)
(***************************************************************************)

\* The hardcoded parameters and state of __init__.
Defaults ==
    [subreddits |-> <<"python", "programming", "technology">>,
     active_hours_start |-> 9,
     active_hours_end |-> 22,
     min_post_score |-> 5,
     max_post_age_hours |-> 12,
     comment_rate_limit_seconds |-> 300,
     forbidden_keywords |-> << <<"n", "s", "f", "w">>,
                               <<"p", "o", "l", "i", "t", "i", "c", "s">>,
                               <<"r", "e", "l", "i", "g", "i", "o", "n">> >>,
     excluded_languages |-> <<"arabic", "russian">>,
     active |-> FALSE,
     dry_run |-> TRUE,
     comments_posted_today |-> 0,
     total_comments_posted |-> 0,
     last_comment_time |-> 0,
     posts_analyzed |-> 0,
     posts_filtered |-> 0,
     posts_selected |-> 0]

ConfigKeys ==
    {"subreddits", "active_hours_start", "active_hours_end", "min_post_score",
     "max_post_age_hours", "comment_rate_limit_seconds", "forbidden_keywords",
     "dry_run"}

\* The eight assignments `self.k = config.get("k", self.k)`, on the fields of
\* `self` that `config` names; the other fields of `self` are kept.
ApplyConfig(self, config) ==
    [f \in DOMAIN self |->
        IF f \in ConfigKeys THEN Get(config, f, self[f]) ELSE self[f]]

\* The characters of a decimal numeral, in the order of their values.
DigitChars == <<"0", "1", "2", "3", "4", "5", "6", "7", "8", "9">>

IsDigit(c) == \E d \in 1..Len(DigitChars) : DigitChars[d] = c

DigitValue(c) == (CHOOSE d \in 1..Len(DigitChars) : DigitChars[d] = c) - 1

\* int(s) on a str of the environment raises ValueError unless s is a
\* numeral; the values of the model are numerals of digits, or hold a letter.
IntRaises(s) == s = <<>> \/ \E i \in 1..Len(s) : ~IsDigit(s[i])

RECURSIVE IntOf(_)
IntOf(s) ==
    IF s = <<>> THEN 0
    ELSE 10 * IntOf(SubSeq(s, 1, Len(s) - 1)) + DigitValue(s[Len(s)])

\* s.split(","): the pieces of s between the commas.
RECURSIVE Split(_)
Split(s) ==
    IF \A i \in 1..Len(s) : s[i] # ","
    THEN <<s>>
    ELSE LET i == CHOOSE k \in 1..Len(s) :
                      s[k] = "," /\ \A j \in 1..(k - 1) : s[j] # ","
         IN  <<SubSeq(s, 1, i - 1)>> \o Split(SubSeq(s, i + 1, Len(s)))

\* The variables _load_config_from_env reads, in the order of its reads, with
\* the attribute each one sets.
EnvVariables ==
    << [name |-> "SUBREDDITS", field |-> "subreddits", type |-> "list"],
       [name |-> "ACTIVE_HOURS_START", field |-> "active_hours_start", type |-> "int"],
       [name |-> "ACTIVE_HOURS_END", field |-> "active_hours_end", type |-> "int"],
       [name |-> "MIN_POST_SCORE", field |-> "min_post_score", type |-> "int"],
       [name |-> "MAX_POST_AGE_HOURS", field |-> "max_post_age_hours", type |-> "int"],
       [name |-> "COMMENT_RATE_LIMIT_SECONDS", field |-> "comment_rate_limit_seconds",
        type |-> "int"],
       [name |-> "FORBIDDEN_KEYWORDS", field |-> "forbidden_keywords", type |-> "list"],
       [name |-> "EXCLUDED_LANGUAGES", field |-> "excluded_languages", type |-> "list"],
       [name |-> "DRY_RUN", field |-> "dry_run", type |-> "bool"] >>

\* What a variable of the environment that is set makes of its value.
EnvConvert(type, value) ==
    CASE type = "list" -> Split(value)
      [] type = "int" -> IntOf(value)
      [] type = "bool" -> lower(value) = <<"t", "r", "u", "e">>

\* The first n reads of _load_config_from_env.  os.getenv gives None for a
\* variable that is not set; `if value:` skips None and the empty str, while
\* DRY_RUN is tested with `is not None`.  An int() that raises ends the
\* method in its handler (line 208), the assignments made before it staying.
RECURSIVE LoadEnv(_, _, _)
LoadEnv(self, environ, n) ==
    IF n = 0 THEN [raised |-> FALSE, self |-> self]
    ELSE LET before == LoadEnv(self, environ, n - 1)
             var == EnvVariables[n]
             set == /\ var.name \in DOMAIN environ
                    /\ var.type = "bool" \/ environ[var.name] # <<>>
         IN  IF before.raised \/ ~set THEN before
             ELSE IF var.type = "int" /\ IntRaises(environ[var.name])
             THEN [raised |-> TRUE, self |-> before.self]
             ELSE [raised |-> FALSE,
                   self |-> [before.self EXCEPT
                                ![var.field] = EnvConvert(var.type, environ[var.name])]]

\* _load_config_from_env: `environ` is os.environ after load_dotenv, a
\* function from the names of the variables that are set to their values.
_load_config_from_env(self, environ) ==
    LoadEnv(self, environ, Len(EnvVariables)).self

\* An environment in which no variable of the bot is set.
NoEnviron == [name \in {} |-> <<>>]

\* What db.get_config("bot_config") returns for a row whose value is not
\* JSON (database.py:276-279): the value itself, a str.
Text(value) == <<"str", value>>

IsText(stored) == Len(stored) = 2

\* _load_config_from_db: `stored` is db.get_config("bot_config"), None when
\* there is no row; `if config:` is false for None, for an empty dict and for
\* an empty str; config.get raises AttributeError on a str, which the handler
\* of line 133 answers with _load_config_from_env.
_load_config_from_db(self, stored, environ) ==
    IF stored # None /\ ~IsText(stored) /\ DOMAIN stored[1] # {}
    THEN ApplyConfig(self, stored[1])
    ELSE _load_config_from_env(self, environ)

\* The templates seeded by _load_products_and_personas when the store and
\* comment_templates.json hold none.
DefaultTemplates ==
    << [id |-> "default", content |->
            <<"I found a solution to this problem! ", "{product_name}",
              " really helped me. You can find it here: ", "{product_url}">>],
       [id |-> "question", content |->
            <<"Have you tried ", "{product_name}",
              "? It's exactly what you need for this case. Here's the link: ",
              "{product_url}">>],
       [id |-> "experience", content |->
            <<"I had the same problem and ", "{product_name}",
              " solved it. I highly recommend it: ", "{product_url}">>],
       [id |-> "solution", content |->
            <<"I solved my problem with ", "{product_name}",
              ". It's really a powerful tool: ", "{product_url}">>],
       [id |-> "recommendation", content |->
            <<"I strongly recommend ", "{product_name}",
              " to solve this problem: ", "{product_url}">>],
       [id |-> "testimonial", content |->
            <<"I was very satisfied with using ", "{product_name}",
              ". It's exactly what I needed: ", "{product_url}">>],
       [id |-> "comparison", content |->
            <<"I compared ", "{product_name}",
              " with other products and it's the best: ", "{product_url}">>],
       [id |-> "alternative", content |->
            <<"If you can't use ", "{product_name}", ", you can try ",
              "{alternative_product_name}", ": ", "{alternative_product_url}">>] >>

\* The templates create_sample_data writes to comment_templates.json.
SampleTemplates ==
    << [id |-> "default", content |->
            <<"J'ai trouve une solution a ce probleme ! ", "{product_name}",
              " m'a vraiment aide. Vous pouvez le trouver ici : ", "{product_url}">>],
       [id |-> "question", content |->
            <<"Avez-vous essaye ", "{product_name}",
              " ? C'est exactement ce qu'il vous faut pour ce cas. Voici le lien : ",
              "{product_url}">>],
       [id |-> "experience", content |->
            <<"J'ai eu le meme probleme et ", "{product_name}",
              " l'a resolu. Je vous le recommande fortement : ", "{product_url}">>] >>

\* The templates of a store that holds two of the seeded ones.
StoredTemplates == <<DefaultTemplates[1], DefaultTemplates[8]>>

\* A catalog as the store returns it: product1 and product2 of the seeded
\* catalog, their descriptions shortened, with keywords over the alphabet of
\* the model.
Product1 ==
    [id |-> "product1",
     name |-> "@qi-coil-mini",
     description |-> "Compact frequency device",
     url |-> "https://qilifestore.com/collections/qi-coils/products/qi-coil-mini",
     keywords |-> << <<"a">> >>]

Product2 ==
    [id |-> "product2",
     name |-> "Qi Coil Mini System with RC1",
     description |-> "Complete frequency therapy system",
     url |-> "https://qilifestore.com/products/qi-coil-mini-system-with-rc1",
     keywords |-> << <<"b">>, <<"a", " ">> >>]

Catalog == <<Product1, Product2>>

\* Lines 49-76 of __init__: the hardcoded values, then _load_config_from_db.
Configured(stored, environ) == _load_config_from_db(Defaults, stored, environ)

\* RedditBot(): the hardcoded values, then _load_config_from_db, then the
\* clients (present or None) and the catalog and templates.
__init__(stored, reddit, openai, products, templates) ==
    LET self == Configured(stored, NoEnviron)
    IN  [f \in DOMAIN self \cup {"reddit", "openai", "products", "comment_templates"} |->
            CASE f = "reddit" -> reddit
              [] f = "openai" -> openai
              [] f = "products" -> products
              [] f = "comment_templates" -> templates
              [] OTHER -> self[f]]

(***************************************************************************)
(* The process: two modules hold a `bot` global, threads use them          *)
(***************************************************************************)

\* main.py runs as the script __main__; routes/api.py imports it again as
\* src.main.  Each of the two module objects has its own global `bot`.
Modules == {"__main__", "src.main"}

MonitorThread == "monitor"

\* The threads of the server that handle requests.
Requests == {"req1", "req2"}

Threads == {MonitorThread} \cup Requests

\* get_bot_instance(): monitor_thread calls the one of __main__, the handlers
\* of routes/api.py the one of src.main.
get_bot_instance(t) == IF t = MonitorThread THEN "__main__" ELSE "src.main"

(***************************************************************************)
(* Bounds of the model and what the environment supplies                   *)
(***************************************************************************)

MaxPosts == 2       \* posts the listings of subreddit.new yield in all

MaxElapsed == 2     \* seconds the clock advances after process start

MaxRuns == 2        \* POST /run requests

MaxUpdates == 1     \* POST /config requests

MaxTextLen == 2     \* characters of a title or a body given to one call

ScoreSpread == 1    \* how far a score given to one call is from the minimum

AgeSpread == 1      \* seconds a post given to one call is from the maximal age

\* 21:59:58 and 23:59:58 of the first day: two seconds before the default
\* active window closes, and two seconds before midnight.
BootTimes == {21 * SecondsPerHour + 59 * 60 + 58, 23 * SecondsPerHour + 59 * 60 + 58}

\* The posts a listing is made of, each created an hour before time t: one
\* below the default minimum score, one that matches no product, one that
\* matches Product1.
PostLow(t) ==
    [id |-> "low", title |-> <<"a">>, selftext |-> <<>>, score |-> 4,
     created_utc |-> t - SecondsPerHour, over_18 |-> FALSE]

PostNoMatch(t) ==
    [id |-> "nomatch", title |-> <<"c">>, selftext |-> <<>>, score |-> 10,
     created_utc |-> t - SecondsPerHour, over_18 |-> FALSE]

PostMatch(t) ==
    [id |-> "match", title |-> <<"A">>, selftext |-> <<>>, score |-> 10,
     created_utc |-> t - SecondsPerHour, over_18 |-> FALSE]

PostPool(t) == {PostLow(t), PostNoMatch(t), PostMatch(t)}

\* subreddit.new(limit=20): a listing of at most 20 posts.
BatchSize == 20

\* A stored configuration that posts for real, at any hour, a second apart.
LiveConfig ==
    [subreddits |-> <<"s1", "s2">>, comment_rate_limit_seconds |-> 1,
     dry_run |-> FALSE, active_hours_start |-> 0, active_hours_end |-> 24]

\* The stored configurations the process can start from.  The last is a
\* partial one, as POST /config stores it.
StoredConfigs ==
    {LiveConfig, [subreddits |-> <<"s1">>, comment_rate_limit_seconds |-> 2]}

\* The bodies of the POST /config requests.
ConfigUpdates ==
    {[k \in {"comment_rate_limit_seconds"} |-> 2],
     [k \in {"dry_run"} |-> FALSE],
     [k \in {"min_post_score"} |-> 11]}

(***************************************************************************)
(* The frame of monitor_subreddits                                         *)
(***************************************************************************)

\* The dict `stats` of line 848.
NewStats(t) ==
    [subreddits_checked |-> 0, posts_analyzed |-> 0, posts_filtered |-> 0,
     posts_selected |-> 0, comments_posted |-> 0, timestamp |-> t]

\* How often the frame has called each component (and how often the filter
\* has rejected, the matcher found a product, post.reply been called), and
\* how long the frame has been told to sleep in all.
NoCalls ==
    [filter |-> 0, rejected |-> 0, select_product |-> 0, matched |-> 0,
     select_persona |-> 0, generate |-> 0, post |-> 0, reply |-> 0,
     sleep |-> 0, slept |-> 0]

\* The locals of a thread that is not in monitor_subreddits.  Of the locals
\* post, filter_result, product and comment the frame holds those that the
\* code after the position of the thread still reads; reg is the value an
\* augmented assignment has read and not yet written back, 0 otherwise.
\* snap is the configuration as the invocation found it, which no step of
\* the code reads: it is kept to compare the reads of the cycle with.
NoFrame ==
    [stats |-> NewStats(0), subs |-> <<>>, si |-> 0, pi |-> 0, post |-> None,
     verdict |-> None, product |-> None, comment |-> None, reg |-> 0,
     wake |-> 0, calls |-> NoCalls, result |-> None, snap |-> None]

\* The post the loop of line 879 is at.
Post(t) == loc[t].post[1]

Self(t) == bot[get_bot_instance(t)]

\* The positions of a thread inside the loops of monitor_subreddits.
LoopPcs ==
    {"L879", "L881", "L907", "L910", "L923", "L933", "L935", "L936", "L936w",
     "L937", "L941"}

InCycle(t) == pc[t] \in LoopPcs

\* _is_active_hour
_is_active_hour(self, time) ==
    self.active_hours_start <= HourOf(time) /\ HourOf(time) < self.active_hours_end

\* A variant of the loop of line 871 that leaves out every other subreddit.
NextSubreddit_SkipOne(t, frame) ==
    IF frame.si + 1 < Len(frame.subs)
    THEN /\ pc' = [pc EXCEPT ![t] = "L879"]
         /\ loc' = [loc EXCEPT ![t] =
                [frame EXCEPT !.si = @ + 2,
                              !.stats.subreddits_checked = @ + 1,
                              !.pi = 0]]
    ELSE /\ pc' = [pc EXCEPT ![t] = "L951"]
         /\ loc' = [loc EXCEPT ![t] = [frame EXCEPT !.result = Some(frame.stats)]]

\* `for subreddit_name in self.subreddits` (the list the loop began with is
\* frame.subs): the next subreddit, with stats["subreddits_checked"] += 1 and
\* the listing of line 879 not yet begun; or the end of the loop and
\* `return stats`.
NextSubreddit(t, frame) ==
    IF frame.si < Len(frame.subs)
    THEN /\ pc' = [pc EXCEPT ![t] = "L879"]
         /\ loc' = [loc EXCEPT ![t] =
                [frame EXCEPT !.si = @ + 1,
                              !.stats.subreddits_checked = @ + 1,
                              !.pi = 0]]
    ELSE /\ pc' = [pc EXCEPT ![t] = "L951"]
         /\ loc' = [loc EXCEPT ![t] = [frame EXCEPT !.result = Some(frame.stats)]]

\* The configuration a cycle reads, as it is when the cycle is invoked.
Snapshot(self) ==
    [f \in {"min_post_score", "max_post_age_hours", "forbidden_keywords",
            "comment_rate_limit_seconds", "dry_run"} |-> self[f]]

\* Lines 844-871 of monitor_subreddits: the checks made before the loops,
\* then the first subreddit.
Enter(t) ==
    LET self == Self(t)
        stats == NewStats(now)
    IN  IF ~self.reddit
        THEN /\ pc' = [pc EXCEPT ![t] = "L951"]
             /\ loc' = [loc EXCEPT ![t] =
                    [NoFrame EXCEPT !.result =
                        Some([error |-> "Client Reddit non initialise",
                              comments_posted |-> 0])]]
        ELSE IF ~self.active \/ ~_is_active_hour(self, now)
        THEN /\ pc' = [pc EXCEPT ![t] = "L951"]
             /\ loc' = [loc EXCEPT ![t] =
                    [NoFrame EXCEPT !.stats = stats, !.result = Some(stats)]]
        ELSE NextSubreddit(t, [NoFrame EXCEPT !.stats = stats,
                                              !.subs = self.subreddits,
                                              !.snap = Some(Snapshot(self))])

(***************************************************************************)
(* The drivers of a cycle                                                  *)
(***************************************************************************)

\* POST /run, run_bot_cycle: a request thread calls monitor_subreddits.
run_bot_cycle(t) ==
    /\ t \in Requests
    /\ pc[t] = "idle"
    /\ hist.runs < MaxRuns
    /\ Enter(t)
    /\ hist' = [hist EXCEPT !.runs = @ + 1]
    /\ UNCHANGED <<bot, now, boot, sched, db_config, db_products, arg, ret>>

\* monitor_thread, one turn of `while True`: the cycle if the bot is active,
\* then time.sleep(60).
monitor_thread(t) ==
    /\ t = MonitorThread
    /\ pc[t] = "L56"
    /\ IF Self(t).active
       THEN Enter(t)
       ELSE /\ pc' = [pc EXCEPT ![t] = "L61"]
            /\ loc' = [loc EXCEPT ![t].wake = now + 60]
    /\ UNCHANGED <<bot, now, boot, sched, db_config, db_products, hist, arg, ret>>

\* `return stats` (and the early returns): the caller has the summary.  The
\* request thread answers and is idle again; the monitor thread sleeps.
return_stats(t) ==
    /\ pc[t] = "L951"
    /\ IF t = MonitorThread
       THEN /\ pc' = [pc EXCEPT ![t] = "L61"]
            /\ loc' = [loc EXCEPT ![t] = [NoFrame EXCEPT !.wake = now + 60]]
       ELSE /\ pc' = [pc EXCEPT ![t] = "idle"]
            /\ loc' = [loc EXCEPT ![t] = NoFrame]
    /\ UNCHANGED <<bot, now, boot, sched, db_config, db_products, hist, arg, ret>>

(***************************************************************************)
(* monitor_subreddits, the loops of lines 871-941                          *)
(***************************************************************************)

\* A variant of the end of a listing in which the handler of line 942 is
\* missing: the end of the listing ends the cycle.
end_listing_Abort(t) ==
    /\ pc[t] = "L879"
    /\ pc' = [pc EXCEPT ![t] = "L951"]
    /\ loc' = [loc EXCEPT ![t].result = Some(loc[t].stats)]
    /\ UNCHANGED <<bot, now, boot, sched, db_config, db_products, hist, arg, ret>>

\* `for post in subreddit.new(limit=20)`, the listing ends: after at most 20
\* posts, or with an error of the fetch, which the first step of the
\* iteration makes and line 942 catches.  The loop of line 871 goes on.
end_listing(t) ==
    /\ pc[t] = "L879"
    /\ NextSubreddit(t, loc[t])
    /\ UNCHANGED <<bot, now, boot, sched, db_config, db_products, hist, arg, ret>>

\* A variant of the listing without stats["posts_analyzed"] += 1.
next_post_NoCount(t) ==
    /\ pc[t] = "L879"
    /\ loc[t].pi < BatchSize
    /\ hist.posts < MaxPosts
    /\ \E post \in PostPool(boot) :
         loc' = [loc EXCEPT ![t].pi = @ + 1,
                            ![t].post = Some(post),
                            ![t].reg = Self(t).posts_analyzed]
    /\ pc' = [pc EXCEPT ![t] = "L881"]
    /\ hist' = [hist EXCEPT !.posts = @ + 1]
    /\ UNCHANGED <<bot, now, boot, sched, db_config, db_products, arg, ret>>

\* A variant of the listing that tests self.active before each post and
\* returns when the bot has been stopped.
next_post_WhileActive(t) ==
    /\ pc[t] = "L879"
    /\ loc[t].pi < BatchSize
    /\ hist.posts < MaxPosts
    /\ IF Self(t).active
       THEN /\ \E post \in PostPool(boot) :
                 loc' = [loc EXCEPT ![t].pi = @ + 1,
                                    ![t].post = Some(post),
                                    ![t].stats.posts_analyzed = @ + 1,
                                    ![t].reg = Self(t).posts_analyzed]
            /\ pc' = [pc EXCEPT ![t] = "L881"]
            /\ hist' = [hist EXCEPT !.posts = @ + 1]
       ELSE /\ pc' = [pc EXCEPT ![t] = "L951"]
            /\ loc' = [loc EXCEPT ![t].result = Some(loc[t].stats)]
            /\ hist' = hist
    /\ UNCHANGED <<bot, now, boot, sched, db_config, db_products, arg, ret>>

\* `for post in subreddit.new(limit=20)`, the listing yields its next post:
\* stats["posts_analyzed"] += 1 and the read of self.posts_analyzed.
next_post(t) ==
    /\ pc[t] = "L879"
    /\ loc[t].pi < BatchSize
    /\ hist.posts < MaxPosts
    /\ \E post \in PostPool(boot) :
         loc' = [loc EXCEPT ![t].pi = @ + 1,
                            ![t].post = Some(post),
                            ![t].stats.posts_analyzed = @ + 1,
                            ![t].reg = Self(t).posts_analyzed]
    /\ pc' = [pc EXCEPT ![t] = "L881"]
    /\ hist' = [hist EXCEPT !.posts = @ + 1]
    /\ UNCHANGED <<bot, now, boot, sched, db_config, db_products, arg, ret>>

\* A variant of line 881 that adds two.
store_posts_analyzed_Twice(t) ==
    /\ pc[t] = "L881"
    /\ bot' = [bot EXCEPT ![get_bot_instance(t)].posts_analyzed = loc[t].reg + 2]
    /\ pc' = [pc EXCEPT ![t] = "L907"]
    /\ loc' = [loc EXCEPT ![t].reg = 0]
    /\ UNCHANGED <<now, boot, sched, db_config, db_products, hist, arg, ret>>

\* self.posts_analyzed += 1, the write.
store_posts_analyzed(t) ==
    /\ pc[t] = "L881"
    /\ bot' = [bot EXCEPT ![get_bot_instance(t)].posts_analyzed = loc[t].reg + 1]
    /\ pc' = [pc EXCEPT ![t] = "L907"]
    /\ loc' = [loc EXCEPT ![t].reg = 0]
    /\ UNCHANGED <<now, boot, sched, db_config, db_products, hist, arg, ret>>

\* A variant of lines 907-923 that passes a rejected post on to the matcher.
filter_step_PassOn(t) ==
    /\ pc[t] = "L907"
    /\ LET verdict == _filter_post(Self(t), Post(t), now)
           product == _select_product_for_post(Self(t), Post(t))
           frame == [loc[t] EXCEPT
                        !.calls.filter = @ + 1,
                        !.calls.rejected = @ + (IF verdict.passed THEN 0 ELSE 1),
                        !.stats.posts_filtered = @ + (IF verdict.passed THEN 0 ELSE 1),
                        !.calls.select_product = @ + 1,
                        !.post = None]
       IN  IF product = None
           THEN /\ pc' = [pc EXCEPT ![t] = "L879"]
                /\ loc' = [loc EXCEPT ![t] = frame]
           ELSE /\ pc' = [pc EXCEPT ![t] = "L923"]
                /\ loc' = [loc EXCEPT ![t] =
                       [frame EXCEPT !.product = product,
                                     !.calls.matched = @ + 1,
                                     !.stats.posts_selected = @ + 1,
                                     !.reg = Self(t).posts_selected]]
    /\ UNCHANGED <<bot, now, boot, sched, db_config, db_products, hist, arg, ret>>

\* A variant of lines 907-923 that counts a post without a product as selected.
filter_step_CountNoProduct(t) ==
    /\ pc[t] = "L907"
    /\ LET verdict == _filter_post(Self(t), Post(t), now)
           product == _select_product_for_post(Self(t), Post(t))
           frame == [loc[t] EXCEPT !.calls.filter = @ + 1, !.post = None]
       IN  IF ~verdict.passed
           THEN /\ pc' = [pc EXCEPT ![t] = "L910"]
                /\ loc' = [loc EXCEPT ![t] =
                       [frame EXCEPT !.verdict = Some(verdict),
                                     !.calls.rejected = @ + 1,
                                     !.stats.posts_filtered = @ + 1,
                                     !.reg = Self(t).posts_filtered]]
           ELSE IF product = None
           THEN /\ pc' = [pc EXCEPT ![t] = "L879"]
                /\ loc' = [loc EXCEPT ![t] =
                       [frame EXCEPT !.calls.select_product = @ + 1,
                                     !.stats.posts_selected = @ + 1]]
           ELSE /\ pc' = [pc EXCEPT ![t] = "L923"]
                /\ loc' = [loc EXCEPT ![t] =
                       [frame EXCEPT !.product = product,
                                     !.calls.select_product = @ + 1,
                                     !.calls.matched = @ + 1,
                                     !.stats.posts_selected = @ + 1,
                                     !.reg = Self(t).posts_selected]]
    /\ UNCHANGED <<bot, now, boot, sched, db_config, db_products, hist, arg, ret>>

\* A variant of lines 907-923 that passes over a post that matches a
\* product once a comment has been posted: the pool has one such post.
filter_step_SkipReplied(t) ==
    /\ pc[t] = "L907"
    /\ LET verdict == _filter_post(Self(t), Post(t), now)
           product == IF hist.last_ok # None THEN None
                      ELSE _select_product_for_post(Self(t), Post(t))
           frame == [loc[t] EXCEPT !.calls.filter = @ + 1, !.post = None]
       IN  IF ~verdict.passed
           THEN /\ pc' = [pc EXCEPT ![t] = "L910"]
                /\ loc' = [loc EXCEPT ![t] =
                       [frame EXCEPT !.verdict = Some(verdict),
                                     !.calls.rejected = @ + 1,
                                     !.stats.posts_filtered = @ + 1,
                                     !.reg = Self(t).posts_filtered]]
           ELSE IF product = None
           THEN /\ pc' = [pc EXCEPT ![t] = "L879"]
                /\ loc' = [loc EXCEPT ![t] =
                       [frame EXCEPT !.calls.select_product = @ + 1]]
           ELSE /\ pc' = [pc EXCEPT ![t] = "L923"]
                /\ loc' = [loc EXCEPT ![t] =
                       [frame EXCEPT !.product = product,
                                     !.calls.select_product = @ + 1,
                                     !.calls.matched = @ + 1,
                                     !.stats.posts_selected = @ + 1,
                                     !.reg = Self(t).posts_selected]]
    /\ UNCHANGED <<bot, now, boot, sched, db_config, db_products, hist, arg, ret>>

\* Lines 907-923.  The filter: on a reject stats["posts_filtered"] += 1, the
\* read of self.posts_filtered and (after the write) `continue`.  Then the
\* matcher, which reads the post and the catalog: `continue` when there is
\* no product, otherwise stats["posts_selected"] += 1 and the read of
\* self.posts_selected.
filter_step(t) ==
    /\ pc[t] = "L907"
    /\ LET verdict == _filter_post(Self(t), Post(t), now)
           product == _select_product_for_post(Self(t), Post(t))
           frame == [loc[t] EXCEPT !.calls.filter = @ + 1, !.post = None]
       IN  IF ~verdict.passed
           THEN /\ pc' = [pc EXCEPT ![t] = "L910"]
                /\ loc' = [loc EXCEPT ![t] =
                       [frame EXCEPT !.verdict = Some(verdict),
                                     !.calls.rejected = @ + 1,
                                     !.stats.posts_filtered = @ + 1,
                                     !.reg = Self(t).posts_filtered]]
           ELSE IF product = None
           THEN /\ pc' = [pc EXCEPT ![t] = "L879"]
                /\ loc' = [loc EXCEPT ![t] =
                       [frame EXCEPT !.calls.select_product = @ + 1]]
           ELSE /\ pc' = [pc EXCEPT ![t] = "L923"]
                /\ loc' = [loc EXCEPT ![t] =
                       [frame EXCEPT !.product = product,
                                     !.calls.select_product = @ + 1,
                                     !.calls.matched = @ + 1,
                                     !.stats.posts_selected = @ + 1,
                                     !.reg = Self(t).posts_selected]]
    /\ UNCHANGED <<bot, now, boot, sched, db_config, db_products, hist, arg, ret>>

\* self.posts_filtered += 1, the write; then `continue`.
store_posts_filtered(t) ==
    /\ pc[t] = "L910"
    /\ bot' = [bot EXCEPT ![get_bot_instance(t)].posts_filtered = loc[t].reg + 1]
    /\ pc' = [pc EXCEPT ![t] = "L879"]
    /\ loc' = [loc EXCEPT ![t].verdict = None, ![t].reg = 0]
    /\ UNCHANGED <<now, boot, sched, db_config, db_products, hist, arg, ret>>

\* Lines 923-930.  self.posts_selected += 1, the write; _select_persona, which
\* reads self.personas; _generate_comment, which reads the product, the
\* templates and the client.  An exception that leaves _generate_comment is
\* caught at line 942: the rest of the listing is dropped.
store_posts_selected(t) ==
    /\ pc[t] = "L923"
    /\ bot' = [bot EXCEPT ![get_bot_instance(t)].posts_selected = loc[t].reg + 1]
    /\ \E gen \in GenOutcomes, choice1 \in Choices(Self(t)), choice2 \in Choices(Self(t)) :
         LET r == _generate_comment(Self(t), loc[t].product[1].product, gen,
                                    choice1, choice2)
             frame == [loc[t] EXCEPT !.calls.select_persona = @ + 1,
                                     !.calls.generate = @ + 1,
                                     !.product = None,
                                     !.reg = 0]
         IN  IF r.raised
             THEN NextSubreddit(t, frame)
             ELSE /\ pc' = [pc EXCEPT ![t] = "L933"]
                  /\ loc' = [loc EXCEPT ![t] = [frame EXCEPT !.comment = Some(r.value)]]
    /\ UNCHANGED <<now, boot, sched, db_config, db_products, hist, arg, ret>>

\* A variant of lines 933-935 that calls _post_comment again when it
\* returns False.
post_step_Retry(t) ==
    /\ pc[t] = "L933"
    /\ \E reply \in ReplyOutcomes :
         LET r == _post_comment(Self(t), reply)
             frame == [loc[t] EXCEPT
                          !.calls.post = @ + 1,
                          !.calls.reply = @ + (IF r.called THEN 1 ELSE 0)]
         IN  IF r.ok
             THEN /\ pc' = [pc EXCEPT ![t] = "L935"]
                  /\ loc' = [loc EXCEPT ![t] =
                         [frame EXCEPT !.stats.comments_posted = @ + 1,
                                       !.comment = None,
                                       !.reg = Self(t).comments_posted_today]]
                  /\ hist' = [hist EXCEPT !.last_ok = Some(now)]
             ELSE /\ loc[t].calls.post < 1
                  /\ pc' = [pc EXCEPT ![t] = "L933"]
                  /\ loc' = [loc EXCEPT ![t] = frame]
                  /\ hist' = hist
    /\ UNCHANGED <<bot, now, boot, sched, db_config, db_products, arg, ret>>

\* A variant of lines 933-935 that counts a comment whatever _post_comment
\* returns.
post_step_CountFailure(t) ==
    /\ pc[t] = "L933"
    /\ \E reply \in ReplyOutcomes :
         LET r == _post_comment(Self(t), reply)
             frame == [loc[t] EXCEPT
                          !.calls.post = @ + 1,
                          !.calls.reply = @ + (IF r.called THEN 1 ELSE 0),
                          !.comment = None]
         IN  IF r.ok
             THEN /\ pc' = [pc EXCEPT ![t] = "L935"]
                  /\ loc' = [loc EXCEPT ![t] =
                         [frame EXCEPT !.stats.comments_posted = @ + 1,
                                       !.reg = Self(t).comments_posted_today]]
                  /\ hist' = [hist EXCEPT !.last_ok = Some(now)]
             ELSE /\ pc' = [pc EXCEPT ![t] = "L879"]
                  /\ loc' = [loc EXCEPT ![t] =
                         [frame EXCEPT !.stats.comments_posted = @ + 1]]
                  /\ hist' = hist
    /\ UNCHANGED <<bot, now, boot, sched, db_config, db_products, arg, ret>>

\* Lines 933-935: _post_comment; when it returns True stats["comments_posted"]
\* += 1 and the read of self.comments_posted_today.  hist.last_ok is the time
\* of the last call that returned True.
post_step(t) ==
    /\ pc[t] = "L933"
    /\ \E reply \in ReplyOutcomes :
         LET r == _post_comment(Self(t), reply)
             frame == [loc[t] EXCEPT
                          !.calls.post = @ + 1,
                          !.calls.reply = @ + (IF r.called THEN 1 ELSE 0),
                          !.comment = None]
         IN  IF r.ok
             THEN /\ pc' = [pc EXCEPT ![t] = "L935"]
                  /\ loc' = [loc EXCEPT ![t] =
                         [frame EXCEPT !.stats.comments_posted = @ + 1,
                                       !.reg = Self(t).comments_posted_today]]
                  /\ hist' = [hist EXCEPT !.last_ok = Some(now)]
             ELSE /\ pc' = [pc EXCEPT ![t] = "L879"]
                  /\ loc' = [loc EXCEPT ![t] = frame]
                  /\ hist' = hist
    /\ UNCHANGED <<bot, now, boot, sched, db_config, db_products, arg, ret>>

\* self.comments_posted_today += 1, the write.
store_comments_posted_today(t) ==
    /\ pc[t] = "L935"
    /\ bot' = [bot EXCEPT ![get_bot_instance(t)].comments_posted_today = loc[t].reg + 1]
    /\ pc' = [pc EXCEPT ![t] = "L936"]
    /\ loc' = [loc EXCEPT ![t].reg = 0]
    /\ UNCHANGED <<now, boot, sched, db_config, db_products, hist, arg, ret>>

\* self.total_comments_posted += 1, the read.
load_total_comments_posted(t) ==
    /\ pc[t] = "L936"
    /\ loc' = [loc EXCEPT ![t].reg = Self(t).total_comments_posted]
    /\ pc' = [pc EXCEPT ![t] = "L936w"]
    /\ UNCHANGED <<bot, now, boot, sched, db_config, db_products, hist, arg, ret>>

\* A variant of line 936 that writes back the value it has read.
store_total_comments_posted_Same(t) ==
    /\ pc[t] = "L936w"
    /\ bot' = [bot EXCEPT ![get_bot_instance(t)].total_comments_posted = loc[t].reg]
    /\ pc' = [pc EXCEPT ![t] = "L937"]
    /\ loc' = [loc EXCEPT ![t].reg = 0]
    /\ UNCHANGED <<now, boot, sched, db_config, db_products, hist, arg, ret>>

\* self.total_comments_posted += 1, the write.
store_total_comments_posted(t) ==
    /\ pc[t] = "L936w"
    /\ bot' = [bot EXCEPT ![get_bot_instance(t)].total_comments_posted = loc[t].reg + 1]
    /\ pc' = [pc EXCEPT ![t] = "L937"]
    /\ loc' = [loc EXCEPT ![t].reg = 0]
    /\ UNCHANGED <<now, boot, sched, db_config, db_products, hist, arg, ret>>

\* Lines 937-941: self.last_comment_time = int(time.time()), then
\* time.sleep(self.comment_rate_limit_seconds) begins.
pace_step(t) ==
    /\ pc[t] = "L937"
    /\ bot' = [bot EXCEPT ![get_bot_instance(t)].last_comment_time = now]
    /\ loc' = [loc EXCEPT ![t].wake = now + Self(t).comment_rate_limit_seconds,
                          ![t].calls.sleep = @ + 1,
                          ![t].calls.slept = @ + Self(t).comment_rate_limit_seconds]
    /\ pc' = [pc EXCEPT ![t] = "L941"]
    /\ UNCHANGED <<now, boot, sched, db_config, db_products, hist, arg, ret>>

\* A variant of time.sleep that returns at once.
sleep_NoWait(t) ==
    /\ pc[t] \in {"L941", "L61"}
    /\ pc' = [pc EXCEPT ![t] = IF pc[t] = "L941" THEN "L879" ELSE "L56"]
    /\ UNCHANGED <<bot, loc, now, boot, sched, db_config, db_products, hist, arg, ret>>

\* A variant of time.sleep that never returns from the pacing delay.
sleep_Forever(t) ==
    /\ pc[t] = "L61"
    /\ now >= loc[t].wake
    /\ pc' = [pc EXCEPT ![t] = "L56"]
    /\ UNCHANGED <<bot, loc, now, boot, sched, db_config, db_products, hist, arg, ret>>

\* time.sleep returns, not before the time asked for has passed: the pacing
\* delay of line 941 goes on with the next post, the sleep of monitor_thread
\* with its next turn.
sleep_return(t) ==
    /\ pc[t] \in {"L941", "L61"}
    /\ now >= loc[t].wake
    /\ pc' = [pc EXCEPT ![t] = IF pc[t] = "L941" THEN "L879" ELSE "L56"]
    /\ UNCHANGED <<bot, loc, now, boot, sched, db_config, db_products, hist, arg, ret>>

(***************************************************************************)
(* The control surface, routes/api.py                                      *)
(***************************************************************************)

\* GET /status: the answer holds seven attributes of the bot of the API,
\* the active hours as the text f"{start}h-{end}h".
get_status ==
    /\ LET self == bot["src.main"]
       IN  ret' = Some([active |-> self.active,
                        dry_run |-> self.dry_run,
                        comments_posted_today |-> self.comments_posted_today,
                        total_comments_posted |-> self.total_comments_posted,
                        monitored_subreddits |-> self.subreddits,
                        active_hours |-> <<self.active_hours_start, "h-",
                                           self.active_hours_end, "h">>,
                        last_comment_time |-> self.last_comment_time])
    /\ UNCHANGED <<bot, pc, loc, now, boot, sched, db_config, db_products, hist, arg>>

\* A variant of POST /start that begins a new day.
start_bot_Reset ==
    /\ bot' = [bot EXCEPT !["src.main"].active = TRUE,
                           !["src.main"].comments_posted_today = 0]
    /\ UNCHANGED <<pc, loc, now, boot, sched, db_config, db_products, hist, arg, ret>>

\* POST /start
start_bot ==
    /\ bot' = [bot EXCEPT !["src.main"].active = TRUE]
    /\ UNCHANGED <<pc, loc, now, boot, sched, db_config, db_products, hist, arg, ret>>

\* POST /stop
stop_bot ==
    /\ bot' = [bot EXCEPT !["src.main"].active = FALSE]
    /\ UNCHANGED <<pc, loc, now, boot, sched, db_config, db_products, hist, arg, ret>>

\* db.save_product: the row of the product is replaced if there is one, and
\* added if not.
save_product(rows, product) ==
    IF \E i \in 1..Len(rows) : rows[i].id = product.id
    THEN [i \in 1..Len(rows) |-> IF rows[i].id = product.id THEN product ELSE rows[i]]
    ELSE Append(rows, product)

\* The loop of update_products: save_product for each product of the body.
RECURSIVE SaveProducts(_, _, _)
SaveProducts(rows, products, i) ==
    IF i > Len(products) THEN rows
    ELSE SaveProducts(save_product(rows, products[i]), products, i + 1)

\* The bodies of the POST /products requests: product1 with other keywords,
\* a product the store does not hold, and both.
ProductUpdates ==
    LET changed == [Product1 EXCEPT !.keywords = << <<"c">> >>]
        added == [id |-> "product4", name |-> "Qi Coil Max",
                  description |-> "Large frequency device",
                  url |-> "https://qilifestore.com/products/qi-coil-max",
                  keywords |-> << <<"a">>, <<"c">> >>]
    IN  {<<changed>>, <<added>>, <<added, changed>>}

\* A variant of POST /products that also replaces the products of the bot.
update_products_Reload(products) ==
    /\ db_products' = SaveProducts(db_products, products, 1)
    /\ bot' = [bot EXCEPT !["src.main"].products = db_products']
    /\ UNCHANGED <<pc, loc, now, boot, sched, db_config, hist, arg, ret>>

\* POST /products with body {"products": products}: each product is saved in
\* the store.
update_products(products) ==
    /\ db_products' = SaveProducts(db_products, products, 1)
    /\ UNCHANGED <<bot, pc, loc, now, boot, sched, db_config, hist, arg, ret>>

\* POST /config with body {"config": config}: the fields the body names are
\* replaced in the bot, and the body is what db.save_config stores.
update_config(config) ==
    /\ hist.updates < MaxUpdates
    /\ bot' = [bot EXCEPT !["src.main"] = ApplyConfig(@, config)]
    /\ db_config' = Some(config)
    /\ hist' = [hist EXCEPT !.updates = @ + 1]
    /\ UNCHANGED <<pc, loc, now, boot, sched, db_products, arg, ret>>

(***************************************************************************)
(* The scheduler thread and the clock                                      *)
(***************************************************************************)

\* The reset jobs `schedule` holds, in the order the bots registered them.
Jobs == <<"__main__", "src.main">>

\* schedule.run_pending(): the jobs of 00:00 are due.
run_pending ==
    /\ sched.job = 0
    /\ now >= sched.next_run
    /\ sched' = [sched EXCEPT !.job = 1, !.line = 554]
    /\ UNCHANGED <<bot, pc, loc, now, boot, db_config, db_products, hist, arg, ret>>

\* A variant of _reset_daily_counter that also resets total_comments_posted
\* with its first assignment.
reset_daily_counter_Total ==
    /\ sched.job > 0
    /\ LET m == Jobs[sched.job]
           done == m = "__main__" \/ sched.line = 557
       IN  /\ bot' = IF m = "__main__"
                     THEN [bot EXCEPT ![m].comments_posted_today = 0,
                                      ![m].total_comments_posted = 0,
                                      ![m].posts_analyzed = 0,
                                      ![m].posts_filtered = 0,
                                      ![m].posts_selected = 0]
                     ELSE CASE sched.line = 554 -> [bot EXCEPT ![m].comments_posted_today = 0,
                                                               ![m].total_comments_posted = 0]
                            [] sched.line = 555 -> [bot EXCEPT ![m].posts_analyzed = 0]
                            [] sched.line = 556 -> [bot EXCEPT ![m].posts_filtered = 0]
                            [] sched.line = 557 -> [bot EXCEPT ![m].posts_selected = 0]
           /\ sched' = IF ~done THEN [sched EXCEPT !.line = @ + 1]
                       ELSE IF sched.job < Len(Jobs)
                       THEN [sched EXCEPT !.job = @ + 1, !.line = 554]
                       ELSE [job |-> 0, line |-> 0,
                             next_run |-> sched.next_run + SecondsPerDay]
    /\ UNCHANGED <<pc, loc, now, boot, db_config, db_products, hist, arg, ret>>

\* _reset_daily_counter, lines 554-557.  On the bot of src.main one
\* assignment is one step.  The counters of the bot of __main__ are read and
\* written by this job alone: its four assignments are one step.
_reset_daily_counter ==
    /\ sched.job > 0
    /\ LET m == Jobs[sched.job]
           done == m = "__main__" \/ sched.line = 557
       IN  /\ bot' = IF m = "__main__"
                     THEN [bot EXCEPT ![m].comments_posted_today = 0,
                                      ![m].posts_analyzed = 0,
                                      ![m].posts_filtered = 0,
                                      ![m].posts_selected = 0]
                     ELSE CASE sched.line = 554 -> [bot EXCEPT ![m].comments_posted_today = 0]
                            [] sched.line = 555 -> [bot EXCEPT ![m].posts_analyzed = 0]
                            [] sched.line = 556 -> [bot EXCEPT ![m].posts_filtered = 0]
                            [] sched.line = 557 -> [bot EXCEPT ![m].posts_selected = 0]
           /\ sched' = IF ~done THEN [sched EXCEPT !.line = @ + 1]
                       ELSE IF sched.job < Len(Jobs)
                       THEN [sched EXCEPT !.job = @ + 1, !.line = 554]
                       ELSE [job |-> 0, line |-> 0,
                             next_run |-> sched.next_run + SecondsPerDay]
    /\ UNCHANGED <<pc, loc, now, boot, db_config, db_products, hist, arg, ret>>

\* A second passes.
Tick ==
    /\ now < boot + MaxElapsed
    /\ now' = now + 1
    /\ UNCHANGED <<bot, pc, loc, boot, sched, db_config, db_products, hist, arg, ret>>

\* A second passes, as Tick, and also beyond boot + MaxElapsed while a thread
\* is in time.sleep and its time has not come: no sleep outlasts the clock.
Pass ==
    /\ \/ now < boot + MaxElapsed
       \/ \E t \in Threads : pc[t] \in {"L941", "L61"} /\ now < loc[t].wake
    /\ now' = now + 1
    /\ UNCHANGED <<bot, pc, loc, boot, sched, db_config, db_products, hist, arg, ret>>

(***************************************************************************)
(* The specifications of the process                                       *)
(***************************************************************************)

NoHistory == [runs |-> 0, updates |-> 0, posts |-> 0, last_ok |-> None]

NoCall == [fn |-> "None"]

\* The state after both modules have constructed their RedditBot from the
\* same store, at time `time`.
Constructed(time, stored, reddit, openai, templates) ==
    /\ boot = time
    /\ now = time
    /\ bot = [m \in Modules |->
                 __init__(Some(stored), reddit, openai, Catalog, templates)]
    /\ db_config = Some(stored)
    /\ db_products = Catalog
    /\ pc = [t \in Threads |-> IF t = MonitorThread THEN "L56" ELSE "idle"]
    /\ loc = [t \in Threads |-> NoFrame]
    /\ sched = [job |-> 0, line |-> 0,
                next_run |-> ((time \div SecondsPerDay) + 1) * SecondsPerDay]
    /\ hist = NoHistory

Init ==
    /\ \E time \in BootTimes, stored \in StoredConfigs,
          reddit \in BOOLEAN, openai \in BOOLEAN :
         Constructed(time, stored, reddit, openai, StoredTemplates)
    /\ arg = NoCall
    /\ ret = None

\* The steps of thread t in monitor_subreddits.
Cycle(t) ==
    \/ return_stats(t)
    \/ end_listing(t)
    \/ next_post(t)
    \/ store_posts_analyzed(t)
    \/ filter_step(t)
    \/ store_posts_filtered(t)
    \/ store_posts_selected(t)
    \/ post_step(t)
    \/ store_comments_posted_today(t)
    \/ load_total_comments_posted(t)
    \/ store_total_comments_posted(t)
    \/ pace_step(t)
    \/ sleep_return(t)

\* The steps of the control surface, the scheduler thread and the clock.
Environment ==
    \/ start_bot
    \/ stop_bot
    \/ \E config \in ConfigUpdates : update_config(config)
    \/ run_pending
    \/ _reset_daily_counter
    \/ Tick

\* The process with one client, which sends POST /run when its last one has
\* been answered.  The steps of monitor_thread are apart (NextProcess): they
\* read the `active` of the bot of __main__ and write the frame of the
\* monitor thread, which no step below reads or writes.
Next ==
    \/ run_bot_cycle("req1")
    \/ Cycle("req1")
    \/ Environment

Spec == Init /\ [][Next]_vars

\* The process with every thread.
NextProcess ==
    \/ \E t \in Requests : run_bot_cycle(t)
    \/ monitor_thread(MonitorThread)
    \/ \E t \in Threads : Cycle(t)
    \/ Environment

SpecProcess == Init /\ [][NextProcess]_vars

\* Two clients whose POST /run requests the server handles at once, on a
\* process started with LiveConfig.
InitOverlap ==
    /\ Constructed(21 * SecondsPerHour, LiveConfig, TRUE, FALSE, StoredTemplates)
    /\ arg = NoCall
    /\ ret = None

NextOverlap ==
    \/ \E t \in Requests : run_bot_cycle(t)
    \/ \E t \in Requests : Cycle(t)
    \/ start_bot
    \/ Tick

SpecOverlap == InitOverlap /\ [][NextOverlap]_vars

\* One client that starts the bot and runs cycles one after the other, and
\* nothing else: no scheduler, no other request.
NextAlone ==
    \/ start_bot
    \/ run_bot_cycle("req1")
    \/ Cycle("req1")
    \/ Tick

SpecAlone == Init /\ [][NextAlone]_vars

\* SpecAlone with a clock that goes on while a thread sleeps.  The thread of
\* the request is scheduled whenever it can take a step, and time passes.
NextLive ==
    \/ start_bot
    \/ run_bot_cycle("req1")
    \/ Cycle("req1")
    \/ Pass

SpecLive ==
    Init /\ [][NextLive]_vars /\ WF_vars(Cycle("req1")) /\ WF_vars(Pass)

\* The two drivers of a cycle on a process started with LiveConfig: the
\* monitor thread and one client that starts, stops and runs the bot.
NextDrivers ==
    \/ monitor_thread(MonitorThread)
    \/ run_bot_cycle("req1")
    \/ \E t \in {MonitorThread, "req1"} : Cycle(t)
    \/ start_bot
    \/ stop_bot
    \/ Tick

SpecDrivers == InitOverlap /\ [][NextDrivers]_vars

\* One client that starts and stops the bot, asks for its status and runs
\* cycles, on a process started with LiveConfig.
NextControl ==
    \/ get_status
    \/ start_bot
    \/ stop_bot
    \/ run_bot_cycle("req1")
    \/ Cycle("req1")
    \/ Tick

SpecControl == InitOverlap /\ [][NextControl]_vars

\* One client that starts the bot, replaces products of the store and runs
\* cycles, on a process started with LiveConfig.
NextCatalog ==
    \/ \E products \in ProductUpdates : update_products(products)
    \/ start_bot
    \/ run_bot_cycle("req1")
    \/ Cycle("req1")
    \/ Tick

SpecCatalog == InitOverlap /\ [][NextCatalog]_vars

(***************************************************************************)
(* Single calls of _filter_post, _select_product_for_post and              *)
(* _generate_comment                                                       *)
(***************************************************************************)

\* The characters of the titles and bodies given to one call.
Alphabet == {"a", "b", "A", " "}

Texts == UNION {[1..n -> Alphabet] : n \in 0..MaxTextLen}

\* The time of the call.
CallTime == 21 * SecondsPerHour

\* The bot the calls are made on, before the fields a call depends on are set.
CallBot == __init__(Some(LiveConfig), TRUE, FALSE, Catalog, SampleTemplates)

\* The filter parameters of the bots _filter_post is called on.
FilterConfigs ==
    {[min_post_score |-> 5, max_post_age_hours |-> 12,
      forbidden_keywords |-> << <<"a", "B">>, <<"b">> >>],
     [min_post_score |-> 0, max_post_age_hours |-> 0,
      forbidden_keywords |-> <<>>]}

\* The calls of _filter_post: scores around the minimum, ages around the
\* maximum, every text as title, with and without the adult flag.
FilterCalls ==
    {[fn |-> "_filter_post",
      self |-> ApplyConfig(CallBot, c),
      post |-> [id |-> "p", title |-> title, selftext |-> selftext,
                score |-> c.min_post_score + ds,
                created_utc |-> CallTime - c.max_post_age_hours * SecondsPerHour - da,
                over_18 |-> over_18],
      time |-> CallTime] :
        c \in FilterConfigs, title \in Texts, selftext \in {<<>>, <<"b">>},
        ds \in (0 - ScoreSpread)..ScoreSpread, da \in (0 - AgeSpread)..AgeSpread,
        over_18 \in BOOLEAN}

\* product3 of the seeded catalog, stored without "keywords".
Product3 ==
    [id |-> "product3",
     name |-> "Qi Coil 3S Transformation System",
     description |-> "Advanced three-coil system",
     url |-> "https://qilifestore.com/products/qi-coil-3s-transformation-system"]

\* The catalogs of the bots _select_product_for_post is called on.
Catalogs == {<<>>, Catalog, <<Product2, Product1>>, <<Product3, Product2>>}

\* The calls of _select_product_for_post: every text as title and as body.
SelectCalls ==
    {[fn |-> "_select_product_for_post",
      self |-> [CallBot EXCEPT !.products = products],
      post |-> [id |-> "p", title |-> title, selftext |-> selftext, score |-> 10,
                created_utc |-> CallTime - SecondsPerHour, over_18 |-> FALSE]] :
        products \in Catalogs, title \in Texts, selftext \in Texts}

\* The template sets of the bots _generate_comment is called on: the seeded
\* defaults, those of comment_templates.json, and none (line 540).
TemplateSets == {DefaultTemplates, SampleTemplates, <<>>}

\* The calls of _generate_comment, with what the generative call and the
\* two random choices do.
ComposeCalls ==
    UNION {
        {[fn |-> "_generate_comment",
          self |-> [CallBot EXCEPT !.openai = openai, !.comment_templates = templates],
          product |-> product, gen |-> gen, choice1 |-> choice1, choice2 |-> choice2] :
            product \in {Product1, Product2}, gen \in GenOutcomes,
            choice1 \in Choices([comment_templates |-> templates]),
            choice2 \in Choices([comment_templates |-> templates])} :
        openai \in BOOLEAN, templates \in TemplateSets}

\* The calls of _post_comment: with and without dry_run, with and without a
\* Reddit client, every text as comment, with what post.reply does.
GateCalls ==
    {[fn |-> "_post_comment",
      self |-> [CallBot EXCEPT !.dry_run = dry_run, !.reddit = reddit],
      post |-> [id |-> "p", title |-> <<"a">>, selftext |-> <<>>, score |-> 10,
                created_utc |-> CallTime - SecondsPerHour, over_18 |-> FALSE],
      comment |-> comment, reply |-> reply] :
        dry_run \in BOOLEAN, reddit \in BOOLEAN, comment \in Texts,
        reply \in ReplyOutcomes}

\* What db.get_config("bot_config") returns at the start of a process: no
\* row, an empty dict, a value that is not JSON, or the body of the last
\* POST /config (one field, two fields, the fields of LiveConfig).
StoredRows ==
    {None, Some([k \in {} |-> 0]), Text(<<>>), Text(<<"x">>),
     Some([k \in {"comment_rate_limit_seconds"} |-> 2]),
     Some([min_post_score |-> 3, dry_run |-> FALSE]),
     Some(LiveConfig)}

\* The values each variable of the environment has when it is set.
EnvValues ==
    [MIN_POST_SCORE |-> {<<"7">>, <<"1", "2">>, <<"x">>, <<>>},
     COMMENT_RATE_LIMIT_SECONDS |-> {<<"6", "0">>},
     FORBIDDEN_KEYWORDS |-> {<<"a", ",", "b">>},
     DRY_RUN |-> {<<"T", "r", "u", "e">>, <<"f", "a", "l", "s", "e">>, <<>>}]

\* The environments of the processes: every choice of variables that are
\* set and of their values.
Environs ==
    UNION {{e \in [names -> UNION {EnvValues[n] : n \in names}] :
                \A n \in names : e[n] \in EnvValues[n]} :
           names \in SUBSET DOMAIN EnvValues}

\* The constructions of a bot.
ConfigCalls ==
    {[fn |-> "__init__", stored |-> stored, environ |-> environ] :
        stored \in StoredRows, environ \in Environs}

\* One call of _filter_post.
call_filter_post ==
    /\ arg.fn = "_filter_post"
    /\ ret = None
    /\ ret' = Some(_filter_post(arg.self, arg.post, arg.time))
    /\ UNCHANGED <<bot, pc, loc, now, boot, sched, db_config, db_products, hist, arg>>

\* One call of _select_product_for_post.
call_select_product_for_post ==
    /\ arg.fn = "_select_product_for_post"
    /\ ret = None
    /\ ret' = Some(_select_product_for_post(arg.self, arg.post))
    /\ UNCHANGED <<bot, pc, loc, now, boot, sched, db_config, db_products, hist, arg>>

\* One call of _generate_comment.
call_generate_comment ==
    /\ arg.fn = "_generate_comment"
    /\ ret = None
    /\ ret' = Some(_generate_comment(arg.self, arg.product, arg.gen,
                                     arg.choice1, arg.choice2))
    /\ UNCHANGED <<bot, pc, loc, now, boot, sched, db_config, db_products, hist, arg>>

\* One call of _post_comment: it assigns no attribute of the bot and does
\* not sleep.
call_post_comment ==
    /\ arg.fn = "_post_comment"
    /\ ret = None
    /\ ret' = Some(_post_comment(arg.self, arg.reply))
    /\ UNCHANGED <<bot, pc, loc, now, boot, sched, db_config, db_products, hist, arg>>

\* One construction of a bot, up to and including _load_config_from_db.
call_init ==
    /\ arg.fn = "__init__"
    /\ ret = None
    /\ ret' = Some(Configured(arg.stored, arg.environ))
    /\ UNCHANGED <<bot, pc, loc, now, boot, sched, db_config, db_products, hist, arg>>

\* The process at rest, as a call finds it.
AtRest == Constructed(CallTime, LiveConfig, TRUE, FALSE, SampleTemplates)

InitFilter == AtRest /\ arg \in FilterCalls /\ ret = None

SpecFilter == InitFilter /\ [][call_filter_post]_vars

InitSelect == AtRest /\ arg \in SelectCalls /\ ret = None

SpecSelect == InitSelect /\ [][call_select_product_for_post]_vars

InitCompose == AtRest /\ arg \in ComposeCalls /\ ret = None

SpecCompose == InitCompose /\ [][call_generate_comment]_vars

\* The process at rest with the bot of the call as the bot of the API.
InitGate ==
    /\ arg \in GateCalls
    /\ ret = None
    /\ boot = CallTime
    /\ now = CallTime
    /\ bot = [m \in Modules |-> IF m = "src.main" THEN arg.self ELSE CallBot]
    /\ db_config = Some(LiveConfig)
    /\ db_products = Catalog
    /\ pc = [t \in Threads |-> IF t = MonitorThread THEN "L56" ELSE "idle"]
    /\ loc = [t \in Threads |-> NoFrame]
    /\ sched = [job |-> 0, line |-> 0,
                next_run |-> ((CallTime \div SecondsPerDay) + 1) * SecondsPerDay]
    /\ hist = NoHistory

SpecGate == InitGate /\ [][call_post_comment]_vars

InitConfig == AtRest /\ arg \in ConfigCalls /\ ret = None

SpecConfig == InitConfig /\ [][call_init]_vars

(***************************************************************************)
(* The properties                                                          *)
(***************************************************************************)

\* The counters of the bot the handlers of routes/api.py use.
Today == bot["src.main"].comments_posted_today

Total == bot["src.main"].total_comments_posted

\* No reset job has begun since the process started.
NoResetYet ==
    /\ sched.job = 0
    /\ sched.next_run = ((boot \div SecondsPerDay) + 1) * SecondsPerDay

\* C1: in one invocation of monitor_subreddits every submission for which
\* _post_comment returned True is followed by a sleep of
\* comment_rate_limit_seconds, the last one included, and nothing else is: the
\* frame has slept once per counted success (the success being handled at
\* lines 935-937 excepted), it is past line 941 only when the time asked for
\* has passed, so that the invocation has lasted at least the sum of its
\* delays, which is N * comment_rate_limit_seconds after N successes when the
\* configuration has not been updated.
C1_PacingDelay ==
    \A t \in Requests :
        LET f == loc[t]
            counted == IF pc[t] \in {"L935", "L936", "L936w", "L937"} THEN 1 ELSE 0
        IN  /\ f.calls.sleep + counted = f.stats.comments_posted
            /\ pc[t] # "L941" => now >= f.wake
            /\ pc[t] # "L941" => now - f.stats.timestamp >= f.calls.slept
            /\ hist.updates = 0 =>
                   f.calls.slept = f.calls.sleep * Self(t).comment_rate_limit_seconds

\* A cycle returns after two successful submissions.
C1_Witness ==
    \E t \in Requests :
        /\ pc[t] = "L951"
        /\ loc[t].stats.comments_posted = 2
        /\ loc[t].calls.slept >= 2

\* C2: at most one thread is inside the loops of monitor_subreddits at any
\* time.
C2_OneCycleAtATime == Cardinality({t \in Threads : InCycle(t)}) <= 1

\* C3: when _post_comment returns True, the last time it returned True, in
\* any thread, is at least comment_rate_limit_seconds ago.
C3_GlobalPacing ==
    [][\A t \in Threads :
          (pc[t] = "L933" /\ pc'[t] = "L935" /\ hist.last_ok # None) =>
              now - hist.last_ok[1] >= Self(t).comment_rate_limit_seconds]_vars

\* C4: when no thread is inside a cycle, 0 <= comments_posted_today <=
\* total_comments_posted.
C4_TodayWithinTotal ==
    (\A t \in Threads : ~InCycle(t)) => (0 <= Today /\ Today <= Total)

\* C5: every post the listing has yielded gets one verdict (the post being
\* handled at lines 881-907 has none yet); the matcher is called for the
\* posts the filter passed and for no other, and the composer, the gate and
\* the delay come after the matcher only; a rejected post is counted in
\* stats["posts_filtered"] and in self.posts_filtered (during the first cycle
\* before midnight the two agree, the write of line 910 pending), and at line
\* 910 the frame holds a rejecting verdict and neither post, product nor
\* comment.
C5_RejectSkips ==
    \A t \in Requests :
        LET f == loc[t]
            pending == IF pc[t] \in {"L881", "L907"} THEN 1 ELSE 0
            unwritten == IF pc[t] = "L910" THEN 1 ELSE 0
        IN  /\ f.calls.filter + pending = f.stats.posts_analyzed
            /\ f.calls.select_product = f.calls.filter - f.calls.rejected
            /\ f.calls.generate <= f.calls.select_product
            /\ f.calls.post <= f.calls.generate
            /\ f.calls.sleep <= f.calls.post
            /\ f.stats.posts_filtered = f.calls.rejected
            /\ f.stats.posts_selected + f.stats.posts_filtered <= f.calls.filter
            /\ f.stats.comments_posted <= f.stats.posts_selected
            /\ (hist.runs = 1 /\ NoResetYet /\ InCycle(t)) =>
                   Self(t).posts_filtered + unwritten = f.stats.posts_filtered
            /\ pc[t] = "L910" =>
                   /\ f.verdict # None
                   /\ ~f.verdict[1].passed
                   /\ f.post = None
                   /\ f.product = None
                   /\ f.comment = None

\* A rejected post has been counted and the cycle is at the next post.
C5_Witness ==
    \E t \in Requests :
        /\ pc[t] = "L879"
        /\ loc[t].calls.rejected >= 1
        /\ loc[t].calls.select_product = 0
        /\ Self(t).posts_filtered = loc[t].stats.posts_filtered

\* C8: a post the matcher finds no product for is counted neither in
\* posts_selected nor in posts_filtered, in the summary and (during the first
\* cycle before midnight, the writes of lines 910 and 923 pending) in the
\* state; a persona is selected and the composer called once for each post
\* with a product (the one at line 923 excepted), and the gate and the delay
\* come after the composer only.
C8_NoProductSkips ==
    \A t \in Requests :
        LET f == loc[t]
            chosen == IF pc[t] = "L923" THEN 1 ELSE 0
            unwritten == IF pc[t] = "L910" THEN 1 ELSE 0
        IN  /\ f.stats.posts_selected = f.calls.matched
            /\ f.calls.matched <= f.calls.select_product
            /\ f.stats.posts_filtered + f.calls.select_product = f.calls.filter
            /\ f.calls.select_persona + chosen = f.calls.matched
            /\ f.calls.generate = f.calls.select_persona
            /\ f.calls.post <= f.calls.generate
            /\ f.calls.reply <= f.calls.post
            /\ f.calls.sleep <= f.calls.post
            /\ (hist.runs = 1 /\ NoResetYet /\ InCycle(t)) =>
                   /\ Self(t).posts_selected + chosen = f.stats.posts_selected
                   /\ Self(t).posts_filtered + unwritten = f.stats.posts_filtered

\* The matcher has found no product for a post and the cycle is at the next
\* post.
C8_Witness ==
    \E t \in Requests :
        /\ pc[t] = "L879"
        /\ loc[t].calls.select_product = 1
        /\ loc[t].calls.matched = 0
        /\ loc[t].calls.select_persona = 0
        /\ loc[t].calls.sleep = 0

\* C6: the verdict of _filter_post is that of the first failing check in the
\* order score, age, forbidden keyword, adult flag, with the first forbidden
\* keyword that occurs; a score equal to the minimum and an age equal to the
\* maximum are not rejected for score or age.
C6_FilterOrder ==
    (ret # None /\ arg.fn = "_filter_post") =>
        LET v == ret[1]
            p == arg.post
            s == arg.self
            age == arg.time - p.created_utc
            low == p.score < s.min_post_score
            old == age > s.max_post_age_hours * SecondsPerHour
            hits == {i \in 1..Len(s.forbidden_keywords) :
                        StrIn(lower(s.forbidden_keywords[i]),
                              lower(p.title \o <<" ">> \o p.selftext))}
        IN  /\ low => (~v.passed /\ v.reason = "Score trop bas")
            /\ (~low /\ old) => (~v.passed /\ v.reason = "Publication trop ancienne")
            /\ (~low /\ ~old /\ hits # {}) =>
                   /\ ~v.passed
                   /\ v.reason = "Contient un mot-cle interdit"
                   /\ \E i \in hits :
                        /\ v.keyword = Some(s.forbidden_keywords[i])
                        /\ \A j \in hits : i <= j
            /\ (~low /\ ~old /\ hits = {} /\ p.over_18) =>
                   (~v.passed /\ v.reason = "Publication marquee NSFW")
            /\ (~low /\ ~old /\ hits = {} /\ ~p.over_18) => v.passed
            /\ p.score = s.min_post_score => v.reason # "Score trop bas"
            /\ age = s.max_post_age_hours * SecondsPerHour =>
                   v.reason # "Publication trop ancienne"

\* A post with the minimal score and the maximal age has passed.
C6_Witness ==
    /\ ret # None
    /\ arg.fn = "_filter_post"
    /\ arg.post.score = arg.self.min_post_score
    /\ arg.time - arg.post.created_utc = arg.self.max_post_age_hours * SecondsPerHour
    /\ arg.self.min_post_score > 0
    /\ ret[1].passed

\* The number of the keywords of a product that occur in a text.
Occurring(product, content) ==
    IF "keywords" \in DOMAIN product
    THEN Cardinality({k \in 1..Len(product.keywords) :
                         StrIn(lower(product.keywords[k]), content)})
    ELSE 0

\* C7: _select_product_for_post returns no product when no product of the
\* catalog has a keyword that occurs, case-insensitively, in title + " " +
\* body; otherwise the first product of the catalog among those with the
\* most occurring keywords, with that number as its score.
C7_Matcher ==
    (ret # None /\ arg.fn = "_select_product_for_post") =>
        LET products == arg.self.products
            content == lower(arg.post.title \o <<" ">> \o arg.post.selftext)
            r == ret[1]
        IN  IF \A i \in 1..Len(products) : Occurring(products[i], content) = 0
            THEN r = None
            ELSE /\ r # None
                 /\ \E i \in 1..Len(products) :
                      /\ r[1].id = products[i].id
                      /\ r[1].product = products[i]
                      /\ r[1].score = Occurring(products[i], content)
                      /\ r[1].score > 0
                      /\ \A j \in 1..Len(products) :
                           Occurring(products[j], content) <= r[1].score
                      /\ \A j \in 1..(i - 1) :
                           Occurring(products[j], content) < r[1].score

\* Two products have the top score and one has been selected.
C7_Witness ==
    /\ ret # None
    /\ arg.fn = "_select_product_for_post"
    /\ ret[1] # None
    /\ \E j \in 1..Len(arg.self.products) :
         /\ arg.self.products[j].id # ret[1][1].id
         /\ Occurring(arg.self.products[j], post_content(arg.post)) = ret[1][1].score

\* C9: _generate_comment returns, and what it returns when there is no
\* generative client or when the generative call raises is not empty.
C9_ComposerReturns ==
    (ret # None /\ arg.fn = "_generate_comment") =>
        /\ ~ret[1].raised
        /\ (~arg.self.openai \/ arg.gen = "raise") => ret[1].value # <<>>

\* C10: without a generative client and with a template set that is not
\* empty, _generate_comment returns a text that holds the name and the url of
\* the product and no replacement field.
C10_TemplateMode ==
    (/\ ret # None
     /\ arg.fn = "_generate_comment"
     /\ ~arg.self.openai
     /\ arg.self.comment_templates # <<>>) =>
        /\ ~ret[1].raised
        /\ \A i \in 1..Len(ret[1].value) : ret[1].value[i] \notin Fields
        /\ \E i \in 1..Len(ret[1].value) : ret[1].value[i] = arg.product.name
        /\ \E i \in 1..Len(ret[1].value) : ret[1].value[i] = arg.product.url

\* C11: _post_comment returns a boolean in every case: True without calling
\* post.reply in a dry run; otherwise False without calling it when there is
\* no Reddit client; otherwise it calls post.reply and returns True exactly
\* when that call succeeds.  The call changes no attribute of the bot it is
\* made on and no thread sleeps on its account.
C11_GateOutcome ==
    (ret # None /\ arg.fn = "_post_comment") =>
        /\ ret[1].ok \in BOOLEAN
        /\ arg.self.dry_run => (ret[1].ok /\ ~ret[1].called)
        /\ (~arg.self.dry_run /\ ~arg.self.reddit) => (~ret[1].ok /\ ~ret[1].called)
        /\ (~arg.self.dry_run /\ arg.self.reddit) =>
                (ret[1].called /\ (ret[1].ok <=> arg.reply = "ok"))
        /\ bot["src.main"] = arg.self
        /\ \A t \in Threads : loc[t].calls.sleep = 0 /\ pc[t] # "L941"

\* A dry run with a Reddit client whose post.reply would raise has returned.
C11_Witness ==
    /\ ret # None
    /\ arg.fn = "_post_comment"
    /\ arg.self.dry_run
    /\ arg.self.reddit
    /\ arg.reply = "raise"
    /\ ret[1].ok

\* A thread t invokes monitor_subreddits in this step.
Invokes(t) == pc[t] \in {"idle", "L56"} /\ pc'[t] \notin {"idle", "L56", "L61"}

\* The five counts of a summary are all zero.
ZeroCounts(result) ==
    /\ {"subreddits_checked", "posts_analyzed", "posts_filtered",
         "posts_selected", "comments_posted"} \subseteq DOMAIN result
    /\ result.subreddits_checked = 0
    /\ result.posts_analyzed = 0
    /\ result.posts_filtered = 0
    /\ result.posts_selected = 0
    /\ result.comments_posted = 0

\* What an invocation that does nothing leaves behind: the bots as they
\* were, no post fetched, no component called, the frame at `return`.
NoOp(t) ==
    /\ bot' = bot
    /\ hist'.posts = hist.posts
    /\ hist'.last_ok = hist.last_ok
    /\ loc'[t].calls = NoCalls
    /\ pc'[t] = "L951"

\* C12: an invocation of monitor_subreddits on a bot that is not active
\* fetches nothing, submits nothing, changes no attribute of the bot and
\* returns a summary whose five counts are zero.
C12_InactiveNoOp ==
    [][\A t \in Threads :
         (Invokes(t) /\ ~Self(t).active) =>
             (NoOp(t) /\ ZeroCounts(loc'[t].result[1]))]_vars

\* C12 for the bots that have a Reddit client.
C12_WithClient ==
    [][\A t \in Threads :
         (Invokes(t) /\ ~Self(t).active /\ Self(t).reddit) =>
             (NoOp(t) /\ ZeroCounts(loc'[t].result[1]))]_vars

\* Thread t, invoking monitor_subreddits in this step, comes to the loop of
\* line 871 (every list of subreddits of the model has a first one).
ExecutesPipeline(t) == pc'[t] = "L879" /\ loc'[t].si = 1

\* C13: an invocation of monitor_subreddits comes to the loops exactly when
\* the bot is active and active_hours_start <= hour < active_hours_end at
\* that moment; when the bot is active outside these hours the invocation
\* changes nothing and returns the zero summary; with
\* active_hours_start >= active_hours_end it never comes to the loops.
C13_RunsIffActiveInWindow ==
    [][\A t \in Threads :
         Invokes(t) =>
             LET self == Self(t)
             IN  /\ ExecutesPipeline(t) <=>
                        (self.active /\ _is_active_hour(self, now))
                 /\ (self.active /\ ~_is_active_hour(self, now)) =>
                        (NoOp(t) /\ ZeroCounts(loc'[t].result[1]))
                 /\ self.active_hours_start >= self.active_hours_end =>
                        ~ExecutesPipeline(t)]_vars

\* C13 for the bots that have a Reddit client.
C13_WithClient ==
    [][\A t \in Threads :
         (Invokes(t) /\ Self(t).reddit) =>
             LET self == Self(t)
             IN  /\ ExecutesPipeline(t) <=>
                        (self.active /\ _is_active_hour(self, now))
                 /\ (self.active /\ ~_is_active_hour(self, now)) =>
                        (NoOp(t) /\ ZeroCounts(loc'[t].result[1]))
                 /\ self.active_hours_start >= self.active_hours_end =>
                        ~ExecutesPipeline(t)]_vars

\* Thread t submits a reply in this step: _post_comment calls post.reply
\* and returns True.
Submits(t) ==
    /\ pc[t] = "L933"
    /\ pc'[t] = "L935"
    /\ loc'[t].calls.reply = loc[t].calls.reply + 1

\* C14: when a reply is submitted the hour of the clock is in
\* [active_hours_start, active_hours_end).
C14_SubmitInWindow ==
    [][\A t \in Threads : Submits(t) => _is_active_hour(Self(t), now)]_vars

\* The last_comment_time of the bot of the API.
LastCommentTime == bot["src.main"].last_comment_time

\* C15: in a cycle that runs alone, a _post_comment that returns True is
\* followed by stats["comments_posted"] + 1 (in the same step),
\* comments_posted_today + 1, total_comments_posted + 1 and
\* last_comment_time = now, each changing nothing else of the four; no other
\* step of the cycle changes any of the four.
C15_SuccessCounts ==
    [][\A t \in Requests :
         LET posted == loc[t].stats.comments_posted
             posted_next == loc'[t].stats.comments_posted
         IN  (pc[t] \in LoopPcs /\ <<pc[t], loc[t]>> # <<pc'[t], loc'[t]>>) =>
               CASE pc[t] = "L933" /\ pc'[t] = "L935" ->
                        /\ posted_next = posted + 1
                        /\ <<Today, Total, LastCommentTime>>' = <<Today, Total, LastCommentTime>>
                 [] pc[t] = "L935" ->
                        /\ Today' = Today + 1
                        /\ <<posted_next, Total', LastCommentTime'>> = <<posted, Total, LastCommentTime>>
                 [] pc[t] = "L936w" ->
                        /\ Total' = Total + 1
                        /\ <<posted_next, Today', LastCommentTime'>> = <<posted, Today, LastCommentTime>>
                 [] pc[t] = "L937" ->
                        /\ LastCommentTime' = now
                        /\ pc'[t] = "L941"
                        /\ <<posted_next, Today', Total'>> = <<posted, Today, Total>>
                 [] OTHER ->
                        <<posted_next, Today', Total', LastCommentTime'>> =
                            <<posted, Today, Total, LastCommentTime>>]_vars

\* The pacing delay after the first comment of the process has begun: each
\* of the three counts is 1 and last_comment_time is the time of the clock.
C15_Witness ==
    /\ pc["req1"] = "L941"
    /\ loc["req1"].stats.comments_posted = 1
    /\ Today = 1
    /\ Total = 1
    /\ LastCommentTime = now
    /\ now > 0

\* C16: when _post_comment returns False the thread is back at the listing
\* of the same subreddit, which yields the next post; the frame no longer
\* holds the comment, so _post_comment is not called again for the post; no
\* attribute of the bot and no count of the summary changes (posts_selected
\* stays as it was incremented) and time.sleep is not called.
C16_FailureSkips ==
    [][\A t \in Requests :
         (/\ pc[t] = "L933"
          /\ loc'[t].calls.post = loc[t].calls.post + 1
          /\ pc'[t] # "L935") =>
             /\ pc'[t] = "L879"
             /\ loc'[t].si = loc[t].si
             /\ loc'[t].pi = loc[t].pi
             /\ loc'[t].comment = None
             /\ bot' = bot
             /\ loc'[t].stats = loc[t].stats
             /\ loc'[t].stats.posts_selected >= 1
             /\ Self(t).posts_selected >= 1
             /\ loc'[t].calls.sleep = loc[t].calls.sleep
             /\ loc'[t].wake = loc[t].wake]_vars

\* After a _post_comment that returned False the listing of the same
\* subreddit has yielded its second post; nothing was posted.
C16_Witness ==
    /\ pc["req1"] = "L881"
    /\ loc["req1"].si = 1
    /\ loc["req1"].pi = 2
    /\ loc["req1"].calls.post = 1
    /\ loc["req1"].calls.reply = 1
    /\ loc["req1"].calls.sleep = 0
    /\ loc["req1"].stats.posts_selected = 1
    /\ loc["req1"].stats.comments_posted = 0
    /\ Today = 0
    /\ Total = 0
    /\ LastCommentTime = 0

\* Thread t leaves the listing of a subreddit in this step: the listing has
\* ended or failed (line 879), or _generate_comment has raised (line 930).
LeavesListing(t) ==
    /\ pc[t] \in LoopPcs
    /\ pc'[t] = "L951" \/ loc'[t].si # loc[t].si

\* C17: when the listing of a subreddit ends, fails, or a step of its loop
\* raises, the cycle goes on with the next subreddit of the list it began
\* with, in order, and returns the summary only after the last one; the
\* counts of the summary and of the bot stay as they are.
C17_FailureContinues ==
    [][\A t \in Requests :
         LeavesListing(t) =>
             /\ pc[t] \in {"L879", "L923"}
             /\ loc'[t].subs = loc[t].subs
             /\ IF loc[t].si < Len(loc[t].subs)
                THEN /\ pc'[t] = "L879"
                     /\ loc'[t].si = loc[t].si + 1
                     /\ loc'[t].pi = 0
                     /\ loc'[t].stats =
                            [loc[t].stats EXCEPT !.subreddits_checked = @ + 1]
                ELSE /\ pc'[t] = "L951"
                     /\ loc'[t].stats = loc[t].stats
                     /\ loc'[t].result = Some(loc[t].stats)
                     /\ loc[t].stats.subreddits_checked = Len(loc[t].subs)
             /\ \A f \in {"posts_analyzed", "posts_filtered", "comments_posted_today",
                           "total_comments_posted", "last_comment_time"} :
                    Self(t)'[f] = Self(t)[f]
             /\ Self(t)'.posts_selected >= Self(t).posts_selected]_vars

\* _generate_comment has raised for the first post of the first subreddit
\* (it was called, _post_comment was not), and the listing of the second
\* subreddit has yielded a post; the first post is still counted.
C17_Witness ==
    /\ pc["req1"] = "L881"
    /\ loc["req1"].si = 2
    /\ loc["req1"].pi = 1
    /\ loc["req1"].calls.generate = 1
    /\ loc["req1"].calls.post = 0
    /\ loc["req1"].stats.posts_analyzed = 2
    /\ loc["req1"].stats.posts_selected = 1
    /\ loc["req1"].stats.subreddits_checked = 2
    /\ bot["src.main"].posts_selected = 1

\* C18: what monitor_subreddits returns has the five counts and the
\* timestamp, and is not an error record.
C18_SummaryComplete ==
    \A t \in Threads :
        pc[t] = "L951" =>
            /\ {"subreddits_checked", "posts_analyzed", "posts_filtered",
                 "posts_selected", "comments_posted", "timestamp"}
                    \subseteq DOMAIN loc[t].result[1]
            /\ "error" \notin DOMAIN loc[t].result[1]

\* C18 for the bots that have a Reddit client.
C18_WithClient ==
    \A t \in Threads :
        (pc[t] = "L951" /\ Self(t).reddit) =>
            /\ {"subreddits_checked", "posts_analyzed", "posts_filtered",
                 "posts_selected", "comments_posted", "timestamp"}
                    \subseteq DOMAIN loc[t].result[1]
            /\ "error" \notin DOMAIN loc[t].result[1]

\* The four counters of a day.
DayCounters ==
    {"comments_posted_today", "posts_analyzed", "posts_filtered", "posts_selected"}

\* The counter the assignment of a line of _reset_daily_counter sets.
ResetLine(line) ==
    CASE line = 554 -> "comments_posted_today"
      [] line = 555 -> "posts_analyzed"
      [] line = 556 -> "posts_filtered"
      [] line = 557 -> "posts_selected"

\* C19: a step of _reset_daily_counter sets day counters of its bot to 0 (on
\* the bot of the API the one of its line, which makes four after line 557;
\* on the bot of __main__ the four) and changes nothing else: not
\* total_comments_posted, last_comment_time, active, dry_run or a field of
\* the configuration of that bot, not the other bot, not the stored
\* configuration, not a thread.
C19_ResetFrame ==
    [][(sched.job > 0 /\ sched' # sched) =>
          LET m == Jobs[sched.job]
              set == IF m = "__main__" THEN DayCounters ELSE {ResetLine(sched.line)}
          IN  /\ \A f \in DOMAIN bot[m] :
                     bot'[m][f] = IF f \in set THEN 0 ELSE bot[m][f]
              /\ \A o \in Modules \ {m} : bot'[o] = bot[o]
              /\ sched'.line = IF m = "src.main" /\ sched.line < 557
                               THEN sched.line + 1
                               ELSE IF sched.job < Len(Jobs) THEN 554 ELSE 0
              /\ UNCHANGED <<pc, loc, db_config, now>>]_vars

\* The resets of the first midnight are done on a bot that had posted a
\* comment the day before: the day counters are 0, total_comments_posted and
\* last_comment_time are as the comment left them, the bot is still active.
C19_Witness ==
    /\ sched.job = 0
    /\ sched.next_run > now
    /\ now >= ((boot \div SecondsPerDay) + 1) * SecondsPerDay
    /\ \A f \in DayCounters : bot["src.main"][f] = 0
    /\ Total = 1
    /\ LastCommentTime > 0
    /\ bot["src.main"].active
    /\ \A t \in Threads : ~InCycle(t)

\* The reset job of the bot of the API has set some day counters and not
\* yet the others, of which one is not 0.
PartialReset ==
    /\ sched.job > 0
    /\ Jobs[sched.job] = "src.main"
    /\ sched.line > 554
    /\ \E line \in sched.line..557 : bot["src.main"][ResetLine(line)] # 0

\* Thread t reads a day counter of its bot in this step: lines 881, 910,
\* 923 and 935 begin with the read.
ReadsDayCounter(t) ==
    \/ pc[t] = "L879" /\ pc'[t] = "L881"
    \/ pc[t] = "L907" /\ pc'[t] \in {"L910", "L923"}
    \/ pc[t] = "L933" /\ pc'[t] = "L935"

\* The day counter thread t writes at its position, if any.
WritesDayCounter(t) ==
    CASE pc[t] = "L881" -> "posts_analyzed"
      [] pc[t] = "L910" -> "posts_filtered"
      [] pc[t] = "L923" -> "posts_selected"
      [] pc[t] = "L935" -> "comments_posted_today"
      [] OTHER -> "None"

\* C20: no cycle reads a day counter while the reset of its bot is half
\* done, and the write that ends an increment of a day counter leaves the
\* counter one above what it was, so that no increment begun before the
\* reset overwrites the 0 of the reset.
C20_ResetAtomic ==
    [][\A t \in Requests :
         /\ ReadsDayCounter(t) => ~PartialReset
         /\ (WritesDayCounter(t) # "None" /\ pc'[t] # pc[t]) =>
                Self(t)'[WritesDayCounter(t)] = Self(t)[WritesDayCounter(t)] + 1]_vars

\* The attributes of a bot the drivers share: the activity flag, the
\* counters and the time of the last comment.
SharedAttributes ==
    {"active", "comments_posted_today", "total_comments_posted",
     "last_comment_time", "posts_analyzed", "posts_filtered", "posts_selected"}

\* C21: the monitor thread and the handlers of the API use one bot: the
\* activity flag, the counters and last_comment_time a request thread reads
\* and writes are those the monitor thread reads and writes.
C21_OneBotState ==
    \A t \in Requests : \A f \in SharedAttributes :
        Self(t)[f] = Self(MonitorThread)[f]

\* The bot of thread t with the configuration its cycle began with.
SelfAsInvoked(t) ==
    [f \in DOMAIN Self(t) |->
        IF f \in DOMAIN loc[t].snap[1] THEN loc[t].snap[1][f] ELSE Self(t)[f]]

\* C22: the steps of a cycle act on the configuration the cycle began with:
\* the filter rejects as the thresholds and forbidden keywords of that moment
\* say, _post_comment calls post.reply exactly when dry_run was False then,
\* and the pacing delay is the comment_rate_limit_seconds of then.
C22_ConfigSnapshot ==
    [][\A t \in Requests :
         /\ (pc[t] = "L907" /\ pc'[t] # "L907") =>
                (pc'[t] = "L910" <=>
                    ~_filter_post(SelfAsInvoked(t), Post(t), now).passed)
         /\ (pc[t] = "L933" /\ loc'[t].calls.post = loc[t].calls.post + 1) =>
                (loc'[t].calls.reply = loc[t].calls.reply + 1 <=>
                    ~SelfAsInvoked(t).dry_run)
         /\ (pc[t] = "L937" /\ pc'[t] = "L941") =>
                loc'[t].wake = now + SelfAsInvoked(t).comment_rate_limit_seconds]_vars

\* The variable of the environment that sets attribute f.
EnvVariableOf(f) ==
    EnvVariables[CHOOSE n \in 1..Len(EnvVariables) : EnvVariables[n].field = f]

\* The environment gives attribute f a value: its variable is set and, for a
\* number, is a numeral.
EnvGives(environ, f) ==
    LET var == EnvVariableOf(f)
    IN  /\ var.name \in DOMAIN environ
        /\ var.type = "bool" \/ environ[var.name] # <<>>
        /\ var.type = "int" => ~IntRaises(environ[var.name])

\* The value attribute f has by the precedence stored configuration, then
\* environment, then hardcoded value.
Resolved(stored, environ, f) ==
    IF stored # None /\ ~IsText(stored) /\ f \in DOMAIN stored[1]
    THEN stored[1][f]
    ELSE IF EnvGives(environ, f)
    THEN EnvConvert(EnvVariableOf(f).type, environ[EnvVariableOf(f).name])
    ELSE Defaults[f]

\* The attributes the environments of the model can set.
EnvFields ==
    {"min_post_score", "comment_rate_limit_seconds", "forbidden_keywords", "dry_run"}

\* C23: after construction each attribute of the configuration has the value
\* of the stored configuration if that names it, else the value of its
\* variable of the environment if that is set, else the hardcoded value; a
\* stored value that is not a dict counts as no stored configuration.
C23_ConfigPrecedence ==
    (ret # None /\ arg.fn = "__init__") =>
        \A f \in EnvFields : ret[1][f] = Resolved(arg.stored, arg.environ, f)

\* C23 for the processes that find no stored configuration (no row, an empty
\* dict or a value that is not a dict) and no variable that int() rejects.
C23_WithoutStored ==
    (/\ ret # None
     /\ arg.fn = "__init__"
     /\ arg.stored = None \/ IsText(arg.stored) \/ DOMAIN arg.stored[1] = {}
     /\ \A n \in DOMAIN arg.environ : n = "MIN_POST_SCORE" =>
            ~IntRaises(arg.environ[n]) \/ arg.environ[n] = <<>>) =>
        \A f \in EnvFields : ret[1][f] = Resolved(arg.stored, arg.environ, f)

\* The step changes at most the `active` of the bot of the API.
OnlyActiveChanges ==
    /\ \A f \in DOMAIN bot["src.main"] \ {"active"} :
           bot'["src.main"][f] = bot["src.main"][f]
    /\ bot'["__main__"] = bot["__main__"]
    /\ UNCHANGED <<pc, loc, now, sched, db_config, hist>>

\* C24: POST /start leaves the bot active and POST /stop leaves it not
\* active, whatever it was, and both change nothing else, so that a second
\* one in a row changes nothing; GET /status changes nothing of the bots,
\* the threads, the scheduler or the store, and answers with the attributes
\* as they are.
C24_ControlIdempotent ==
    [][/\ start_bot => (bot'["src.main"].active /\ OnlyActiveChanges)
       /\ stop_bot => (~bot'["src.main"].active /\ OnlyActiveChanges)
       /\ (bot["src.main"].active /\ start_bot) => bot' = bot
       /\ (~bot["src.main"].active /\ stop_bot) => bot' = bot
       /\ get_status =>
              /\ UNCHANGED <<bot, pc, loc, now, sched, db_config, hist>>
              /\ ret'[1].active = bot["src.main"].active
              /\ ret'[1].comments_posted_today = Today
              /\ ret'[1].total_comments_posted = Total
              /\ ret'[1].last_comment_time = LastCommentTime]_vars

\* The status of a bot that was started, has posted a comment and was
\* stopped: the stop has changed no counter.
C24_Witness ==
    /\ ret # None
    /\ ~ret[1].active
    /\ ret[1].total_comments_posted = 1
    /\ ret[1].comments_posted_today = 1
    /\ ret[1].last_comment_time > 0
    /\ ~bot["src.main"].active
    /\ Total = 1

\* C25: in a cycle that runs alone with dry_run set, _post_comment returns
\* True without calling post.reply, and the cycle goes on as after a live
\* submission: stats["comments_posted"] + 1 in the same step, then
\* comments_posted_today + 1, total_comments_posted + 1, last_comment_time =
\* now and a sleep of comment_rate_limit_seconds that the frame does not
\* leave before the time has passed; post.reply is never called.
C25_DryRunCounts ==
    [][\A t \in Requests :
         (Self(t).dry_run /\ pc[t] \in LoopPcs) =>
           /\ loc[t].calls.reply = 0
           /\ loc'[t].calls.reply = 0
           /\ <<pc[t], loc[t]>> # <<pc'[t], loc'[t]>> =>
                 CASE pc[t] = "L933" ->
                          /\ pc'[t] = "L935"
                          /\ loc'[t].calls.post = loc[t].calls.post + 1
                          /\ loc'[t].stats.comments_posted =
                                 loc[t].stats.comments_posted + 1
                   [] pc[t] = "L935" -> Today' = Today + 1 /\ pc'[t] = "L936"
                   [] pc[t] = "L936" -> pc'[t] = "L936w"
                   [] pc[t] = "L936w" -> Total' = Total + 1 /\ pc'[t] = "L937"
                   [] pc[t] = "L937" ->
                          /\ LastCommentTime' = now
                          /\ pc'[t] = "L941"
                          /\ loc'[t].calls.sleep = loc[t].calls.sleep + 1
                          /\ loc'[t].wake = now + Self(t).comment_rate_limit_seconds
                   [] pc[t] = "L941" -> now >= loc[t].wake
                   [] OTHER -> TRUE]_vars

\* The pacing delay after the first dry-run comment of the process has
\* begun: the three counts are 1, the timestamp is the time of the clock and
\* post.reply has not been called.
C25_Witness ==
    /\ bot["src.main"].dry_run
    /\ pc["req1"] = "L941"
    /\ loc["req1"].calls.post = 1
    /\ loc["req1"].calls.reply = 0
    /\ loc["req1"].calls.sleep = 1
    /\ loc["req1"].stats.comments_posted = 1
    /\ Today = 1
    /\ Total = 1
    /\ LastCommentTime = now
    /\ loc["req1"].wake > now

\* The calls a frame has made, in the order of the code of one post: filter,
\* matcher, persona pick, composer, gate, sleep.
Counts(frame) ==
    <<frame.calls.filter, frame.calls.select_product, frame.calls.select_persona,
      frame.calls.generate, frame.calls.post, frame.calls.sleep>>

\* The place of a frame in its loops: the list of subreddits, the index of
\* the subreddit and the index of the post in its listing.
Place(frame) == <<frame.subs, frame.si, frame.pi>>

\* The frame goes on to the subreddit that follows in self.subreddits, or
\* returns when there is none.
ToNextSubreddit(t) ==
    IF loc[t].si < Len(loc[t].subs)
    THEN /\ pc'[t] = "L879"
         /\ Place(loc'[t]) = <<loc[t].subs, loc[t].si + 1, 0>>
    ELSE pc'[t] = "L951" /\ Place(loc'[t]) = Place(loc[t])

\* C26: every step of a cycle is the next one of the code.  The subreddits
\* are taken one after the other in the order of self.subreddits, the posts
\* of a listing one at a time in the order it yields them, and for one post
\* the steps are the count of line 881, _filter_post, _select_product_for_post,
\* the count of line 923, _select_persona, _generate_comment, _post_comment,
\* the counters of lines 934-937 and time.sleep; the listing yields the next
\* post only after the sleep has lasted comment_rate_limit_seconds.
C26_SequentialOrder ==
    [][\A t \in Requests :
         LET frame == loc[t]
             next == loc'[t]
             Calls(filter, select, persona, generate, post, sleep) ==
                 Counts(next) = <<frame.calls.filter + filter,
                                  frame.calls.select_product + select,
                                  frame.calls.select_persona + persona,
                                  frame.calls.generate + generate,
                                  frame.calls.post + post,
                                  frame.calls.sleep + sleep>>
             Stays == Place(next) = Place(frame)
         IN  (pc[t] \in LoopPcs \cup {"idle"} /\ <<pc[t], frame>> # <<pc'[t], next>>) =>
               CASE pc[t] = "idle" ->
                        \/ pc'[t] = "L951"
                        \/ /\ pc'[t] = "L879"
                           /\ Place(next) = <<Self(t).subreddits, 1, 0>>
                           /\ Counts(next) = <<0, 0, 0, 0, 0, 0>>
                 [] pc[t] = "L879" ->
                        /\ Calls(0, 0, 0, 0, 0, 0)
                        /\ \/ /\ pc'[t] = "L881"
                              /\ next.post # None
                              /\ Place(next) = <<frame.subs, frame.si, frame.pi + 1>>
                           \/ ToNextSubreddit(t)
                 [] pc[t] = "L881" ->
                        /\ pc'[t] = "L907" /\ Stays /\ next.post = frame.post
                        /\ Calls(0, 0, 0, 0, 0, 0)
                 [] pc[t] = "L907" ->
                        /\ Stays
                        /\ \/ pc'[t] = "L910" /\ Calls(1, 0, 0, 0, 0, 0)
                           \/ pc'[t] \in {"L879", "L923"} /\ Calls(1, 1, 0, 0, 0, 0)
                 [] pc[t] = "L910" ->
                        pc'[t] = "L879" /\ Stays /\ Calls(0, 0, 0, 0, 0, 0)
                 [] pc[t] = "L923" ->
                        /\ Calls(0, 0, 1, 1, 0, 0)
                        /\ \/ pc'[t] = "L933" /\ Stays
                           \/ ToNextSubreddit(t)
                 [] pc[t] = "L933" ->
                        /\ pc'[t] \in {"L935", "L879"} /\ Stays
                        /\ Calls(0, 0, 0, 0, 1, 0)
                 [] pc[t] = "L935" ->
                        pc'[t] = "L936" /\ Stays /\ Calls(0, 0, 0, 0, 0, 0)
                 [] pc[t] = "L936" ->
                        pc'[t] = "L936w" /\ Stays /\ Calls(0, 0, 0, 0, 0, 0)
                 [] pc[t] = "L936w" ->
                        pc'[t] = "L937" /\ Stays /\ Calls(0, 0, 0, 0, 0, 0)
                 [] pc[t] = "L937" ->
                        pc'[t] = "L941" /\ Stays /\ Calls(0, 0, 0, 0, 0, 1)
                 [] pc[t] = "L941" ->
                        /\ pc'[t] = "L879" /\ Stays /\ Calls(0, 0, 0, 0, 0, 0)
                        /\ now >= frame.wake]_vars

\* The first post of the second subreddit is in its pacing delay, after the
\* first subreddit had one post that was commented and paced.
C26_Witness ==
    /\ pc["req1"] = "L941"
    /\ Place(loc["req1"]) = <<<<"s1", "s2">>, 2, 1>>
    /\ Counts(loc["req1"]) = <<2, 2, 2, 2, 2, 2>>
    /\ loc["req1"].stats.subreddits_checked = 2

\* The entries of forbidden_keywords, by index, that occur in a text when
\* both are lowercased.
ForbiddenIn(self, text) ==
    {i \in 1..Len(self.forbidden_keywords) :
        StrIn(lower(self.forbidden_keywords[i]), lower(text))}

\* C27: when the score and the age of the post pass, _filter_post rejects
\* for a forbidden keyword if and only if an entry of forbidden_keywords
\* occurs, both lowercased, in title + " " + selftext; the verdict then names
\* the first such entry of the list, as the list holds it; an entry that
\* occurs in the title alone or in the body alone is such an entry.
C27_ForbiddenKeyword ==
    (/\ ret # None
     /\ arg.fn = "_filter_post"
     /\ arg.post.score >= arg.self.min_post_score
     /\ arg.time - arg.post.created_utc <= arg.self.max_post_age_hours * SecondsPerHour) =>
        LET v == ret[1]
            p == arg.post
            s == arg.self
            hits == ForbiddenIn(s, p.title \o <<" ">> \o p.selftext)
            rejected == ~v.passed /\ v.reason = "Contient un mot-cle interdit"
        IN  /\ rejected <=> hits # {}
            /\ rejected =>
                   \E i \in hits :
                       /\ v.keyword = Some(s.forbidden_keywords[i])
                       /\ \A j \in hits : i <= j
            /\ ~rejected => v.keyword = None
            /\ ForbiddenIn(s, p.title) \cup ForbiddenIn(s, p.selftext) # {} => rejected

\* A post is rejected for the second entry of the list, which occurs in its
\* body and not in its title.
C27_Witness ==
    /\ ret # None
    /\ arg.fn = "_filter_post"
    /\ ret[1].reason = "Contient un mot-cle interdit"
    /\ ret[1].keyword = Some(arg.self.forbidden_keywords[2])
    /\ ForbiddenIn(arg.self, arg.post.title) = {}
    /\ ForbiddenIn(arg.self, arg.post.selftext) = {2}
    /\ arg.post.title # <<>>

\* C28: POST /stop clears `active` and leaves every frame where it is.
\* monitor_subreddits reads `active` at line 860 only: a cycle that has come
\* to the loops has a next step whether the bot is active or not (but for
\* the sleep of line 941, which waits for its time), and returns only when
\* the last subreddit of the list is done.  An invocation that finds the bot
\* stopped returns the zero summary and changes nothing.
C28_StopDoesNotCancel ==
    [][\A t \in Requests :
         /\ (bot["src.main"].active /\ ~bot'["src.main"].active) =>
                (pc' = pc /\ loc' = loc)
         /\ (InCycle(t) /\ ~Self(t).active) =>
                \/ ENABLED Cycle(t)
                \/ pc[t] = "L941" /\ now < loc[t].wake
         /\ (InCycle(t) /\ pc'[t] = "L951") =>
                (pc[t] \in {"L879", "L923"} /\ loc[t].si = Len(loc[t].subs))
         /\ (Invokes(t) /\ ~Self(t).active) =>
                (NoOp(t) /\ ZeroCounts(loc'[t].result[1]))]_vars

\* The only cycle of the process is in the pacing delay of its second
\* comment, in the second subreddit; the last GET /status, answered when it
\* had posted one comment, found the bot stopped, and it still is.
C28_Witness ==
    /\ hist.runs = 1
    /\ pc["req1"] = "L941"
    /\ loc["req1"].si = 2
    /\ loc["req1"].stats.comments_posted = 2
    /\ Total = 2
    /\ ~bot["src.main"].active
    /\ ret # None
    /\ ~ret[1].active
    /\ ret[1].total_comments_posted = 1

\* The products and the templates of the two bots.
InMemoryCatalog ==
    [m \in Modules |-> <<bot[m].products, bot[m].comment_templates>>]

C30_NoLostIncrement ==
    [][\A t \in Requests :
         <<pc[t], loc[t]>> # <<pc'[t], loc'[t]>> =>
            /\ Total' = (IF pc[t] = "L936w" THEN Total + 1 ELSE Total)
            /\ Today' = (IF pc[t] = "L935" THEN Today + 1 ELSE Today)]_vars

\* C31: with one cycle at a time comments_posted_today is at most
\* total_comments_posted + 1, in the bot and in every answer of GET /status;
\* it is total_comments_posted + 1 only while the cycle is between the write
\* of line 935 and the write of line 936.
C31_TodayAtMostTotalPlusOne ==
    /\ Today <= Total + 1
    /\ Today = Total + 1 => pc["req1"] \in {"L936", "L936w"}
    /\ ret # None =>
           ret[1].comments_posted_today <= ret[1].total_comments_posted + 1

\* GET /status has answered comments_posted_today = 1 and
\* total_comments_posted = 0.
C31_Witness ==
    /\ ret # None
    /\ ret[1].comments_posted_today = 1
    /\ ret[1].total_comments_posted = 0

\* C32: the day counters of the bot of the API satisfy posts_filtered +
\* posts_selected <= posts_analyzed and comments_posted_today <=
\* posts_selected in every state, the states after a reset of midnight
\* during a cycle included.
C32_DayCountersOrdered ==
    LET self == bot["src.main"]
    IN  /\ self.posts_filtered + self.posts_selected <= self.posts_analyzed
        /\ self.comments_posted_today <= self.posts_selected

SummaryCount(f) ==
    CASE f = "posts_analyzed" -> "posts_analyzed"
      [] f = "posts_filtered" -> "posts_filtered"
      [] f = "posts_selected" -> "posts_selected"
      [] f = "comments_posted_today" -> "comments_posted"
      [] f = "total_comments_posted" -> "comments_posted"

SteppedCounters ==
    {"posts_analyzed", "posts_filtered", "posts_selected",
     "comments_posted_today", "total_comments_posted"}

\* 1 when thread t has added one to the count of the summary and not yet
\* written the counter f of the bot, 0 otherwise.
Pending(t, f) ==
    IF \/ f = "posts_analyzed" /\ pc[t] = "L881"
       \/ f = "posts_filtered" /\ pc[t] = "L910"
       \/ f = "posts_selected" /\ pc[t] = "L923"
       \/ f = "comments_posted_today" /\ pc[t] = "L935"
       \/ f = "total_comments_posted" /\ pc[t] \in {"L935", "L936", "L936w"}
    THEN 1 ELSE 0

\* What the counter f of the bot was when the cycle of thread t began, if
\* the counter and the count of the summary have been stepped together.
AtCycleStart(t, f) ==
    Self(t)[f] + Pending(t, f) - loc[t].stats[SummaryCount(f)]

\* C34: in a cycle that runs alone and without a reset, each of the five
\* counters of the bot is, at every step and at the return, what it was when
\* the cycle began plus the count of the summary (an increment whose write
\* is still to come counted in).
C34_CountersFollowSummary ==
    [][\A t \in Requests : \A f \in SteppedCounters :
         /\ (Invokes(t) /\ pc'[t] = "L879") => AtCycleStart(t, f)' = Self(t)[f]
         /\ InCycle(t) => AtCycleStart(t, f)' = AtCycleStart(t, f)]_vars

\* The second cycle of the process returns a summary of one post and one
\* comment; the bot has counted two posts and two comments.
C34_Witness ==
    /\ hist.runs = 2
    /\ pc["req1"] = "L951"
    /\ loc["req1"].stats.posts_analyzed = 1
    /\ loc["req1"].stats.comments_posted = 1
    /\ bot["src.main"].posts_analyzed = 2
    /\ bot["src.main"].posts_selected = 2
    /\ Today = 2
    /\ Total = 2

\* C35: _post_comment is called at line 933 only, once for the post the
\* listing has yielded: the thread comes to line 933 from the steps of that
\* post and leaves it with the call, so that another call needs another
\* post of a listing.  Whether a post goes on to the composer and the gate
\* depends on _filter_post and _select_product_for_post alone: a post that
\* passes both goes on, whatever has been commented before.
C35_NoReplyRecord ==
    [][\A t \in Requests :
         /\ loc'[t].calls.post > loc[t].calls.post =>
                /\ pc[t] = "L933"
                /\ pc'[t] \in {"L935", "L879"}
                /\ loc'[t].calls.post = loc[t].calls.post + 1
                /\ loc'[t].comment = None
                /\ loc'[t].pi = loc[t].pi
         /\ (pc'[t] = "L933" /\ pc[t] # "L933") => pc[t] = "L923"
         /\ (pc'[t] = "L923" /\ pc[t] # "L923") => pc[t] = "L907"
         /\ (pc'[t] = "L907" /\ pc[t] # "L907") => pc[t] = "L881"
         /\ (pc'[t] = "L881" /\ pc[t] # "L881") =>
                (pc[t] = "L879" /\ loc'[t].pi = loc[t].pi + 1)
         /\ (/\ pc[t] = "L907"
             /\ pc'[t] # "L907"
             /\ _filter_post(Self(t), Post(t), now).passed
             /\ _select_product_for_post(Self(t), Post(t)) # None) =>
                pc'[t] = "L923"
         /\ pc[t] = "L933" => ENABLED post_step(t)]_vars

\* The second cycle of the process is in the pacing delay after its comment
\* on the post that matches a product, the one post of the pool that does,
\* on which the first cycle has commented.
C35_Witness ==
    /\ hist.runs = 2
    /\ pc["req1"] = "L941"
    /\ loc["req1"].stats.comments_posted = 1
    /\ loc["req1"].calls.post = 1
    /\ loc["req1"].calls.reply = 1
    /\ Total = 2
    /\ \A post \in PostPool(boot) :
           (/\ _filter_post(bot["src.main"], post, now).passed
            /\ _select_product_for_post(bot["src.main"], post) # None) =>
               post.id = "match"

\* C36: when _generate_comment raises, the thread is back at the listing of
\* the same subreddit, which yields its next post, and posts_selected, in
\* the bot and in the summary, is what it was before the post was selected.
C36_ComposeFailureSkipsPost ==
    [][\A t \in Requests :
         (pc[t] = "L923" /\ pc'[t] \notin {"L923", "L933"}) =>
             /\ pc'[t] = "L879"
             /\ Place(loc'[t]) = Place(loc[t])
             /\ Self(t)'.posts_selected = loc[t].reg
             /\ loc'[t].stats.posts_selected = loc[t].stats.posts_selected - 1]_vars

\* C37: the stored configuration round-trips.  A RedditBot constructed from
\* the stored row, and the running bot after _load_config_from_db has read
\* the row again, have the eight fields of the configuration as the running
\* bot has them.
C37_ConfigRoundTrips ==
    LET self == bot["src.main"]
    IN  \A f \in ConfigKeys :
            /\ Configured(db_config, NoEnviron)[f] = self[f]
            /\ _load_config_from_db(self, db_config, NoEnviron)[f] = self[f]

\* The first half of C37: POST /config replaces in the bot the fields its
\* body names, with the values of the body, and no other attribute.
C37_ReplacesNamedFields ==
    [][db_config' # db_config =>
         LET config == db_config'[1]
         IN  \A f \in DOMAIN bot["src.main"] :
                 bot'["src.main"][f] =
                     IF f \in DOMAIN config \cap ConfigKeys THEN config[f]
                     ELSE bot["src.main"][f]]_vars

\* C37 for the running bot alone: reading the stored row again changes no
\* field of its configuration.
C37_ReloadKeeps ==
    LET self == bot["src.main"]
    IN  \A f \in ConfigKeys : _load_config_from_db(self, db_config, NoEnviron)[f] = self[f]

\* C38: an invocation of monitor_subreddits by a request returns to
\* run_bot_cycle, which answers: whatever the listings yield, whether
\* _generate_comment and _post_comment fail or not, and with the pacing
\* delays the cycle sleeps.
C38_CycleTerminates == (pc["req1"] # "idle") ~> (pc["req1"] = "idle")

\* A cycle returns after a submission that failed and one that was followed
\* by its pacing delay.
C38_Witness ==
    /\ pc["req1"] = "L951"
    /\ loc["req1"].calls.post = 2
    /\ loc["req1"].calls.sleep = 1
    /\ loc["req1"].stats.comments_posted = 1
    /\ now >= loc["req1"].wake

\* C39: a turn of the loop of monitor_thread invokes monitor_subreddits
\* when POST /start has set the bot active and POST /stop has not cleared
\* it, and does not invoke it when the bot is not active.
C39_MonitorFollowsStart ==
    [][(pc[MonitorThread] = "L56" /\ pc'[MonitorThread] # "L56") =>
           (Invokes(MonitorThread) <=> bot["src.main"].active)]_vars

\* The second half of C39 alone: the monitor thread never invokes
\* monitor_subreddits while the bot it holds is not active.
C39_IdleWhileInactive ==
    [][Invokes(MonitorThread) => Self(MonitorThread).active]_vars

====
